---- MODULE Spec2Model ----
(***************************************************************************)
(* The tool handlers of the Echo scaffolder MCP server (package tools):    *)
(* each handler reads the arguments of one tools/call request, validates   *)
(* them in a fixed order and returns a result made of one text.            *)
(*                                                                         *)
(* A Go string supplied by the caller is a sequence of characters; a       *)
(* character is written as a one-letter TLA+ string, and a character       *)
(* outside ASCII by its code point ("U+01C6").  A text built by the        *)
(* handlers is a sequence of pieces: a piece is either a literal of the    *)
(* source (a constant of the program) or a value computed from the         *)
(* request.  A backquote of the source is written ' inside the literals.   *)
(***************************************************************************)
EXTENDS Integers, Sequences, FiniteSets, TLC

VARIABLES
    tools,       \* the tools of the server: tools[name] is the handler AddTool bound to name
    pc,          \* pc[p]: where invocation p stands: "idle", "loop", "done"
    req,         \* req[p]: the request invocation p serves (or served last)
    frame,       \* frame[p]: the local variables of the running handler
    result,      \* result[p]: what the handler returned: (*CallToolResult, error)
    log,         \* the completed calls, in order of completion: <<request, result>>
    s,           \* the name the capitalization transform is applied to
    caps         \* the successive results of applying strings.Title, starting from s

vars == <<tools, pc, req, frame, result, log, s, caps>>

-----------------------------------------------------------------------------
(* Bounds of the model.                                                    *)

MaxNameLen == 3      \* longest name the capitalization transform is tried on
MaxApply == 3        \* how many times the transform is re-applied
MaxFields == 2       \* longest descriptor list of a fields payload
MaxErrParts == 2     \* an error_message is made of at most this many fragments
MaxCalls == 3        \* completed calls kept in the log

-----------------------------------------------------------------------------
(* Characters and the functions of package strings the handlers call.      *)

LowerLetters == <<"a", "b", "c", "d", "e", "f", "g", "h", "i", "j", "k", "l", "m",
                  "n", "o", "p", "q", "r", "s", "t", "u", "v", "w", "x", "y", "z">>

UpperLetters == <<"A", "B", "C", "D", "E", "F", "G", "H", "I", "J", "K", "L", "M",
                  "N", "O", "P", "Q", "R", "S", "T", "U", "V", "W", "X", "Y", "Z">>

Digits == {"0", "1", "2", "3", "4", "5", "6", "7", "8", "9"}

Range(f) == {f[i] : i \in DOMAIN f}

IndexOf(c, letters) == CHOOSE i \in DOMAIN letters : letters[i] = c

\* The digraph letter dz with caron: U+01C4 upper, U+01C5 title, U+01C6 lower.
DigraphLetters == {"U+01C4", "U+01C5", "U+01C6"}

\* unicode.ToLower
ToLowerRune(c) ==
    IF c \in Range(UpperLetters) THEN LowerLetters[IndexOf(c, UpperLetters)]
    ELSE IF c \in DigraphLetters THEN "U+01C6"
    ELSE c

\* ToTitle written as a flip of the case bit (r ^ 0x20) with no test that the
\* letter is lower case: a letter that is already upper case comes out lower.
ToTitleFlipsCase(c) ==
    IF c \in Range(LowerLetters) THEN UpperLetters[IndexOf(c, LowerLetters)]
    ELSE IF c \in Range(UpperLetters) THEN LowerLetters[IndexOf(c, UpperLetters)]
    ELSE IF c \in DigraphLetters THEN "U+01C5"
    ELSE c

\* unicode.ToTitle
ToTitle(c) ==
    IF c \in Range(LowerLetters) THEN UpperLetters[IndexOf(c, LowerLetters)]
    ELSE IF c \in DigraphLetters THEN "U+01C5"
    ELSE c

\* strings.isSeparator: letters, digits and the underscore are not separators.
isSeparator(c) ==
    ~ (c \in Range(LowerLetters) \/ c \in Range(UpperLetters) \/ c \in Digits
       \/ c = "_" \/ c \in DigraphLetters)

\* The title case of every rune, wherever it stands in its word.
TitleRuneEveryLetter(str, i) == ToTitle(str[i])

\* The rune strings.Title writes at position i: the title case of the rune
\* when the rune before it is a separator (the start counts as one).
TitleRune(str, i) ==
    IF i = 1 \/ isSeparator(str[i - 1]) THEN ToTitle(str[i]) ELSE str[i]

\* strings.Title
Title(str) == [i \in 1..Len(str) |-> TitleRune(str, i)]

\* strings.ToLower
ToLower(str) == [i \in 1..Len(str) |-> ToLowerRune(str[i])]

\* strings.Contains
Contains(str, substr) ==
    \E i \in 0..(Len(str) - Len(substr)) :
        SubSeq(str, i + 1, i + Len(substr)) = substr

-----------------------------------------------------------------------------
(* Texts, and fmt.Sprintf.                                                 *)

\* A piece of text that is a literal of the source.
Lit(str) == [lit |-> str, val |-> <<>>]

\* A piece of text that is a string value of the running program.
Val(chars) == [lit |-> "", val |-> chars]

\* A Go string as a text of one piece.
Str(chars) == <<Val(chars)>>

\* The items of a format: literal text, the verb %[n]s, a verb that takes the
\* next operand (%s, %d), and a verb that writes a percent sign (%%, % 10%).
L(token) == [verb |-> "", lit |-> token, index |-> 0]

A(n) == [verb |-> "s", lit |-> "", index |-> n]

N(v) == [verb |-> v, lit |-> "", index |-> 0]

Percent == [verb |-> "%", lit |-> "%", index |-> 0]

\* The operand the verb at item i takes: the operand of its explicit index,
\* or the one after the operand of the verb before it (argNum of fmt).
ArgNum(format, i) ==
    LET explicit == {j \in 1..i : format[j].index > 0}
        last == IF explicit = {} THEN 0
                ELSE CHOOSE j \in explicit : \A k \in explicit : k <= j
        base == IF last = 0 THEN 0 ELSE format[last].index
    IN  base + Cardinality({k \in (last + 1)..i : format[k].verb \notin {"", "%"}})

\* What fmt.Sprintf writes for item i of a format, the operands being strings:
\* %s writes the operand and any other verb writes %!verb(string=operand).
SprintfItem(format, a, i) ==
    LET it == format[i]
        n == ArgNum(format, i)
    IN  IF it.verb \in {"", "%"} THEN <<Lit(it.lit)>>
        ELSE IF n > Len(a) THEN <<Lit("%!" \o it.verb \o "(MISSING)")>>
        ELSE IF it.verb = "s" THEN a[n]
        ELSE <<Lit("%!" \o it.verb \o "(string=")>> \o a[n] \o <<Lit(")")>>

\* The concatenation of parts[lo..hi].
RECURSIVE ConcatRange(_, _, _)
ConcatRange(parts, lo, hi) ==
    IF lo > hi THEN <<>>
    ELSE IF lo = hi THEN parts[lo]
    ELSE LET mid == (lo + hi) \div 2
         IN  ConcatRange(parts, lo, mid) \o ConcatRange(parts, mid + 1, hi)

\* fmt.Sprintf(format, a...): operands left over are reported unless the
\* format used an explicit index.
Sprintf(format, a) ==
    ConcatRange([i \in DOMAIN format |-> SprintfItem(format, a, i)], 1, Len(format))
    \o (IF /\ \A k \in DOMAIN format : format[k].index = 0
           /\ ArgNum(format, Len(format)) < Len(a)
        THEN <<Lit("%!(EXTRA string)")>>
        ELSE <<>>)

\* strings.Join
RECURSIVE Join(_, _)
Join(elems, sep) ==
    IF elems = <<>> THEN <<>>
    ELSE IF Len(elems) = 1 THEN elems[1]
    ELSE elems[1] \o sep \o Join(Tail(elems), sep)

-----------------------------------------------------------------------------
(* Reading a response back: the struct declaration and its field lines.    *)

\* The literals that open and close the body of the struct declaration, and
\* the separator strings.Join puts between two field lines.
StructOpen == Lit(" struct {\n\tgorm.Model\n")

StructClose == Lit("\n}\n")

LineBreak == Lit("\n")

\* The pieces of a text strictly between its pieces open and close.
Between(text, open, close) ==
    LET from == CHOOSE i \in DOMAIN text : text[i] = open
        to == CHOOSE i \in DOMAIN text : text[i] = close
    IN  SubSeq(text, from + 1, to - 1)

\* The lines of a body: its stretches between line breaks, none when the body
\* is empty.
LinesOf(body) ==
    LET breaks == {i \in DOMAIN body : body[i] = LineBreak}
        marks == breaks \cup {0, Len(body) + 1}
        mark(k) == CHOOSE i \in marks : Cardinality({j \in marks : j < i}) = k
    IN  IF body = <<>> THEN <<>>
        ELSE [k \in 1..(Cardinality(breaks) + 1) |->
                 SubSeq(body, mark(k - 1) + 1, mark(k) - 1)]

\* Whether a text holds a struct declaration, and the field lines of it.
HasStruct(text) ==
    /\ \E i \in DOMAIN text : text[i] = StructOpen
    /\ \E i \in DOMAIN text : text[i] = StructClose

FieldLines(text) == LinesOf(Between(text, StructOpen, StructClose))

-----------------------------------------------------------------------------
(* Requests (mcp.CallToolRequest) and results (mcp.CallToolResult).        *)

\* An argument of a request: not supplied, supplied with a value that is not a
\* string (a number), or supplied as a string.
ArgAbsent == [k |-> "absent"]

ArgNumber == [k |-> "number"]

ArgString(v) == [k |-> "string", str |-> v]

\* GetString with a default of its own, "app", for an argument that is not given.
GetStringOrApp(args, key, defaultValue) ==
    IF args[key].k = "string" THEN args[key].str ELSE <<"a", "p", "p">>

\* request.GetString(key, defaultValue)
GetString(args, key, defaultValue) ==
    IF args[key].k = "string" THEN args[key].str ELSE defaultValue

\* RequireString that takes a missing argument for an empty string.
RequireStringDefaults(args, key) ==
    IF args[key].k = "string" THEN [ok |-> TRUE, str |-> args[key].str, err |-> <<>>]
    ELSE [ok |-> TRUE, str |-> <<>>, err |-> <<>>]

\* request.RequireString(key): the string, or an error that quotes the key.
RequireString(args, key) ==
    IF args[key].k = "string"
    THEN [ok |-> TRUE, str |-> args[key].str, err |-> <<>>]
    ELSE IF args[key].k = "absent"
    THEN [ok |-> FALSE, str |-> <<>>,
          err |-> <<Lit("required argument \""), Lit(key), Lit("\" not found")>>]
    ELSE [ok |-> FALSE, str |-> <<>>,
          err |-> <<Lit("argument \""), Lit(key), Lit("\" is not a string")>>]

\* The nil *mcp.CallToolResult.
NilResult == [nil |-> TRUE]

\* A result with one content item per piece of the text.
NewToolResultTexts(text) ==
    [nil |-> FALSE, isError |-> FALSE,
     content |-> [i \in DOMAIN text |-> [type |-> "text", text |-> <<text[i]>>]]]

\* mcp.NewToolResultText
NewToolResultText(text) ==
    [nil |-> FALSE, isError |-> FALSE, content |-> <<[type |-> "text", text |-> text]>>]

\* mcp.NewToolResultError
NewToolResultError(text) ==
    [nil |-> FALSE, isError |-> TRUE, content |-> <<[type |-> "text", text |-> text]>>]

\* A handler that reports an error result as a Go error: (nil, err).
ReturnGoError(res) ==
    IF res.isError
    THEN [returned |-> TRUE, result |-> NilResult, err |-> "error"]
    ELSE [returned |-> TRUE, result |-> res, err |-> "nil"]

\* What a handler returns: (result, nil).
Return(res) == [returned |-> TRUE, result |-> res, err |-> "nil"]

\* A handler that has not returned.
NoReturn == [returned |-> FALSE, result |-> NilResult, err |-> "nil"]

\* The text "Error getting '<key>': <err>" of the handlers.
ErrorGetting(key, err) == <<Lit("Error getting '"), Lit(key), Lit("': ")>> \o err

-----------------------------------------------------------------------------
(* The fields payload and json.Unmarshal into []map[string]string.         *)

\* JSON values.  An object lists its members in the order of the text, so a
\* key may occur twice.
JNull == [t |-> "null"]

JNumber == [t |-> "number"]

JString(chars) == [t |-> "string", str |-> chars]

JArray(elems) == [t |-> "array", elems |-> elems]

JObject(members) == [t |-> "object", members |-> members]

\* A member of an object.
Member(key, value) == [key |-> key, value |-> value]

\* The text of a payload: text that is not JSON, or the text of a JSON value.
NotJSON == [syntax |-> "invalid", value |-> JNull]

JSONText(value) == [syntax |-> "valid", value |-> value]

\* The characters a JSON value begins with (the scanner's stateBeginValue).
BeginsValue(c) == c \in {"{", "[", "\"", "-", "t", "f", "n"} \cup Digits

\* The payload of a text given by its characters, for a text that starts with
\* a character no JSON value begins with: the scanner stops at that character
\* ("invalid character 'I' looking for beginning of value").
TextPayload(chars) ==
    IF chars = <<>> \/ ~ BeginsValue(chars[1])
    THEN [syntax |-> "invalid", value |-> JNull, text |-> chars]
    ELSE [syntax |-> "valid", value |-> JString(chars), text |-> chars]

\* The nil map[string]string.
NilMap == [key \in {} |-> <<>>]

\* m[key] of a Go map: the zero value "" when the key is not in the map.
MapIndex(m, key) == IF key \in DOMAIN m THEN m[key] ELSE <<>>

\* The map after the first n members of an object are stored: a string is
\* stored under its key, a null stores "", and a key met again is overwritten.
RECURSIVE StoreMembers(_, _)
StoreMembers(members, n) ==
    IF n = 0 THEN NilMap
    ELSE LET m == StoreMembers(members, n - 1)
             mb == members[n]
             v == IF mb.value.t = "string" THEN mb.value.str ELSE <<>>
         IN  [key \in DOMAIN m \cup {mb.key} |-> IF key = mb.key THEN v ELSE m[key]]

\* Decoding into a map of any values: every object decodes.
DecodesToMapOfAny(value) == value.t \in {"null", "object"}

\* Whether a JSON value decodes into a map[string]string: null (the nil map)
\* or an object whose values are strings or nulls.
DecodesToMap(value) ==
    \/ value.t = "null"
    \/ /\ value.t = "object"
       /\ \A i \in DOMAIN value.members : value.members[i].value.t \in {"string", "null"}

\* The map a JSON value decodes into.
DecodeMap(value) ==
    IF value.t = "object" THEN StoreMembers(value.members, Len(value.members)) ELSE NilMap

\* A decoder that stops at the first element it cannot decode and reports no error.
UnmarshalLenient(payload) ==
    IF payload.syntax = "valid" /\ payload.value.t = "array"
    THEN [err |-> "", fields |-> [i \in DOMAIN payload.value.elems |->
                                     DecodeMap(payload.value.elems[i])]]
    ELSE [err |-> "", fields |-> <<>>]

\* A decoder that wants an array: the JSON null is a type error.
UnmarshalNullIsError(payload) ==
    IF payload.syntax = "invalid"
    THEN [err |-> "SyntaxError", fields |-> <<>>]
    ELSE IF payload.value.t # "array"
    THEN [err |-> "UnmarshalTypeError", fields |-> <<>>]
    ELSE LET elems == payload.value.elems
         IN  [err |-> IF \A i \in DOMAIN elems : DecodesToMap(elems[i])
                      THEN "" ELSE "UnmarshalTypeError",
              fields |-> [i \in DOMAIN elems |-> DecodeMap(elems[i])]]

\* json.Unmarshal([]byte(fieldsJSON), &fields): err is "" for a nil error.
Unmarshal(payload) ==
    IF payload.syntax = "invalid"
    THEN [err |-> "SyntaxError", fields |-> <<>>]
    ELSE IF payload.value.t = "null"
    THEN [err |-> "", fields |-> <<>>]
    ELSE IF payload.value.t # "array"
    THEN [err |-> "UnmarshalTypeError", fields |-> <<>>]
    ELSE LET elems == payload.value.elems
         IN  [err |-> IF \A i \in DOMAIN elems : DecodesToMap(elems[i])
                      THEN "" ELSE "UnmarshalTypeError",
              fields |-> [i \in DOMAIN elems |-> DecodeMap(elems[i])]]

\* err.Error() of a decoding error.
JSONError(err) == <<Lit("(*json." \o err \o ").Error()")>>

-----------------------------------------------------------------------------
(* fix_app.                                                                *)

\* The substring FixAppHandler looks for in error_message: "is not in std".
NotInStd == <<"i", "s", " ", "n", "o", "t", " ", "i", "n", " ", "s", "t", "d">>

\* The hint FixAppHandler adds for an import path that is not found.
ImportPathHint ==
    Lit("This error typically means Go cannot find your internal packages. Double-check your import paths to ensure they use your module name (e.g., '[appname]/internal/models') and run 'go mod tidy'.\n")

\* A test of the hint that compares the whole error_message with the substring.
HasImportPathErrorExact(errorMessage) == errorMessage = NotInStd

\* strings.Contains(errorMessage, "is not in std")
HasImportPathError(errorMessage) == Contains(errorMessage, NotInStd)

\* The part about error_message with the hint written before the echo.
FixAppSpecificErrorHintFirst(errorMessage) ==
    IF errorMessage # <<>>
    THEN (IF HasImportPathError(errorMessage) THEN <<ImportPathHint>> ELSE <<>>)
         \o Sprintf(<<L("\n\nRegarding your specific error: \""), N("s"), L("\"\n")>>,
                    <<Str(errorMessage)>>)
    ELSE <<>>

\* The part of the response about the caller's error_message.
FixAppSpecificError(errorMessage) ==
    IF errorMessage # <<>>
    THEN Sprintf(<<L("\n\nRegarding your specific error: \""), N("s"), L("\"\n")>>,
                 <<Str(errorMessage)>>)
         \o (IF HasImportPathError(errorMessage) THEN <<ImportPathHint>> ELSE <<>>)
    ELSE <<>>

\* The text FixAppHandler writes to responseBuilder, in the order of its
\* WriteString calls.
FixAppResponse(appName, errorMessage) ==
    <<Lit("Here are some pointers to address common issues in your Echo web application:\n\n")>>
    \o (IF appName # <<>>
        THEN Sprintf(<<L("For application '"), N("s"), L("':\n")>>, <<Str(appName)>>)
        ELSE <<>>)
    \o <<Lit("1.  **Go Module Paths**: Ensure your Go module is correctly initialized and that internal imports use the module name.\n")>>
    \o Sprintf(<<L("    If your module is named '"), N("s"),
                 L("', then imports for internal packages should look like:\n")>>,
               <<Str(appName)>>)
    \o <<Lit("    '''go\n")>>
    \o Sprintf(<<L("    import (\n        \""), N("s"), L("/internal/models\"\n        \""),
                 N("s"), L("/internal/repository\"\n        \""), N("s"),
                 L("/internal/service\"\n        \""), N("s"),
                 L("/internal/controllers\"\n    )\n")>>,
               <<Str(appName), Str(appName), Str(appName), Str(appName)>>)
    \o <<Lit("    '''\n")>>
    \o Sprintf(<<L("    Make sure to replace '"), N("s"), L("' with your actual module name.\n\n")>>,
               <<Str(appName)>>)
    \o <<Lit("2.  **Missing Dependencies**: If you see errors like \"no required module provides package...\", run 'go mod tidy' in your application's root directory (")>>
    \o Sprintf(<<L("'cd "), N("s"), L(" && go mod tidy'")>>, <<Str(appName)>>)
    \o <<Lit(") to fetch missing dependencies.\n\n")>>
    \o <<Lit("3.  **Database Initialization**: Ensure your 'main.go' (in 'cmd/web/') correctly initializes the GORM database connection and auto-migrates all your models. For example:\n")>>
    \o <<Lit("    '''go\n")>>
    \o Sprintf(<<L("    import (\n        \"gorm.io/driver/sqlite\"\n        \"gorm.io/gorm\"\n        \""),
                 N("s"), L("/internal/models\"\n    )\n\n")>>,
               <<Str(appName)>>)
    \o <<Lit("    func main() {\n        db, err := gorm.Open(sqlite.Open(\"gorm.db\"), &gorm.Config{})\n        if err != nil {\n            // handle error\n        }\n        db.AutoMigrate(&models.Product{}, &models.Customer{}, &models.ProductCustomer{}) // Add all your models\n    }\n")>>
    \o <<Lit("    '''\n\n")>>
    \o <<Lit("4.  **Repository, Service, and Controller Initialization**: Verify that you are creating instances of your repositories, services, and controllers, and injecting dependencies correctly (repositories into services, services into controllers).\n\n")>>
    \o <<Lit("5.  **Route Registration**: Ensure all your controller methods have corresponding routes registered in your 'main.go' (in 'cmd/web/'). For example:\n")>>
    \o <<Lit("    '''go\n")>>
    \o <<Lit("    e.POST(\"/products\", productController.CreateProduct)\n    e.GET(\"/products/:id\", productController.GetProductByID)\n    // ... and so on for all CRUD operations and models\n")>>
    \o <<Lit("    '''\n")>>
    \o FixAppSpecificError(errorMessage)

\* FixAppHandler with appName kept in a package-level variable: a call
\* without app_name sees the app_name of the call before it.
FixAppReturnRemembering(args) ==
    LET last == IF log = <<>> THEN <<>>
                ELSE GetString(log[Len(log)].req.args, "app_name", <<>>)
        appName == GetString(args, "app_name", last)
        errorMessage == GetString(args, "error_message", <<>>)
    IN  Return(NewToolResultText(FixAppResponse(appName, errorMessage)))

\* FixAppHandler reading app_name with RequireString, as the app scaffold does.
FixAppReturnRequiring(args) ==
    LET appName == RequireString(args, "app_name")
        errorMessage == GetString(args, "error_message", <<>>)
    IN  IF ~ appName.ok
        THEN Return(NewToolResultError(ErrorGetting("app_name", appName.err)))
        ELSE Return(NewToolResultText(FixAppResponse(appName.str, errorMessage)))

\* FixAppHandler, from its request to what it returns.
FixAppReturn(args) ==
    LET appName == GetString(args, "app_name", <<>>)
        errorMessage == GetString(args, "error_message", <<>>)
    IN  Return(NewToolResultText(FixAppResponse(appName, errorMessage)))

-----------------------------------------------------------------------------
(* The formats of the scaffold responses.  A literal stretch of a format   *)
(* is named by its place in the source file, "line:column-line:column".    *)

\* The format of the app scaffold response: the first argument of fmt.Sprintf
\* (internal/tools/produce_app_boilerplate.go, lines 31-139).
ProduceAppBoilerplateFormat == <<
    L("app@31:27-34:38"), A(1), L("app@34:44-37:16"), A(1), L("app@37:22-39:36"), A(1),
    L("app@39:42-64:10"), A(1), L("app@64:16-64:31"), A(1), L("app@64:37-67:10"), A(1),
    L("app@67:16-69:33"), A(1), L("app@69:39-70:105"), A(1), L("app@70:111-80:32"), A(1),
    L("app@80:38-92:2"), A(6), L("app@92:8-93:2"), A(6), L("app@93:8-94:2"), A(6),
    L("app@94:8-95:2"), A(6), L("app@95:8-138:10")
    >>

\* The format of the model scaffold response: the first argument of fmt.Sprintf
\* (unnamed/part_002, lines 76-260).
ProduceModelBoilerplateFormat == <<
    L("model@76:27-79:23"), A(1), L("model@79:29-89:52"), A(2), L("model@89:58-90:12"),
    A(3), L("model@91:6-95:36"), A(2), L("model@95:42-97:83"), A(2), L("model@97:89-106:2"),
    A(6), L("model@106:8-109:5"), A(4), L("model@109:11-110:29"), A(5),
    L("model@110:35-110:43"), A(4), L("model@110:49-111:29"), A(5),
    L("model@111:35-111:43"), A(4), L("model@111:49-113:68"), A(4), L("model@113:74-116:5"),
    A(4), L("model@116:11-120:8"), A(4), L("model@120:14-120:37"), A(4),
    L("model@120:43-121:9"), A(4), L("model@121:15-131:2"), A(6), L("model@131:8-134:9"),
    A(4), L("model@134:15-134:58"), A(5), L("model@134:64-134:72"), A(4),
    L("model@134:78-135:37"), A(5), L("model@135:43-145:2"), A(6), L("model@145:8-148:9"),
    A(4), L("model@148:15-148:58"), A(5), L("model@148:64-148:72"), A(4),
    L("model@148:78-149:35"), A(5), L("model@149:41-159:2"), A(6), L("model@159:8-162:9"),
    A(4), L("model@162:15-163:45"), A(4), L("model@163:51-174:2"), A(6),
    L("model@174:8-177:9"), A(4), L("model@177:15-177:97"), A(4), L("model@177:103-178:5"),
    A(5), L("model@178:11-178:20"), A(4), L("model@178:26-181:35"), Percent,
    L("model@181:38-183:20"), A(5), L("model@183:26-184:8"), A(5), L("model@184:14-213:2"),
    A(6), L("model@213:8-214:2"), A(6), L("model@214:8-215:2"), A(6),
    L("model@215:8-216:2"), A(6), L("model@216:8-259:10")
    >>

\* The format of the service scaffold response: the first argument of fmt.Sprintf
\* (internal/tools/produce_api_controller_boilerplate.go, lines 270-613).
ProduceServiceBoilerplateFormat == <<
    L("service@270:27-308:51"), A(1), L("service@308:57-311:25"), A(2),
    L("service@311:31-313:45"), A(2), L("service@313:51-319:9"), A(1),
    L("service@319:15-319:68"), A(2), L("service@319:74-320:11"), A(1),
    L("service@320:17-328:9"), A(1), L("service@328:15-328:68"), A(2),
    L("service@328:74-329:11"), A(1), L("service@329:17-338:3"), A(1),
    L("service@338:9-338:53"), A(2), L("service@338:59-339:5"), A(1),
    L("service@339:11-350:7"), A(1), L("service@350:13-350:65"), A(2),
    L("service@350:71-351:9"), A(1), L("service@351:15-352:9"), A(1),
    L("service@352:15-359:29"), A(2), L("service@359:35-363:23"), A(2),
    L("service@363:29-369:2"), A(3), L("service@369:8-370:2"), A(3),
    L("service@370:8-371:2"), A(3), L("service@371:8-374:5"), A(1),
    L("service@374:11-375:44"), A(1), L("service@375:50-375:64"), A(1),
    L("service@375:70-376:44"), A(1), L("service@376:50-376:64"), A(1),
    L("service@376:70-378:45"), A(1), L("service@378:51-379:86"), A(1),
    L("service@379:92-382:5"), A(1), L("service@382:11-383:1"), A(2),
    L("service@383:7-383:22"), A(1), L("service@383:28-386:8"), A(1),
    L("service@386:14-386:21"), A(2), L("service@386:27-386:42"), A(1),
    L("service@386:48-386:59"), A(1), L("service@386:65-387:9"), A(1),
    L("service@387:15-387:26"), A(2), L("service@387:32-387:37"), A(2),
    L("service@387:43-391:9"), A(1), L("service@391:15-391:52"), A(1),
    L("service@391:58-391:64"), A(1), L("service@391:70-392:13"), A(1),
    L("service@392:19-405:9"), A(1), L("service@405:15-405:59"), A(1),
    L("service@405:65-405:81"), A(1), L("service@405:87-406:16"), A(1),
    L("service@406:22-415:23"), A(2), L("service@415:29-421:2"), A(3),
    L("service@421:8-424:9"), A(1), L("service@424:15-424:70"), A(1),
    L("service@424:76-424:90"), A(1), L("service@424:96-429:13"), A(2),
    L("service@429:19-437:23"), A(2), L("service@437:29-444:2"), A(3),
    L("service@444:8-447:9"), A(1), L("service@447:15-447:70"), A(1),
    L("service@447:76-447:90"), A(1), L("service@447:96-450:20"), A(2),
    L("service@450:26-455:26"), A(2), L("service@455:32-472:13"), A(2),
    L("service@472:19-480:23"), A(2), L("service@480:29-486:9"), A(1),
    L("service@486:15-487:10"), A(2), L("service@487:16-490:23"), A(2),
    L("service@490:29-497:2"), A(3), L("service@497:8-500:9"), A(1),
    L("service@500:15-500:71"), A(1), L("service@500:77-502:19"), A(2),
    L("service@502:25-507:26"), A(2), L("service@507:32-513:23"), A(2),
    L("service@513:29-519:2"), A(3), L("service@519:8-522:9"), A(1),
    L("service@522:15-522:112"), A(1), L("service@522:118-524:19"), A(2),
    L("service@524:25-530:26"), A(1), L("service@530:32-537:17"), A(1),
    L("service@537:23-567:2"), A(3), L("service@567:8-568:2"), A(3),
    L("service@568:8-569:2"), A(3), L("service@569:8-570:2"), A(3),
    L("service@570:8-585:30"), A(1), L("service@585:36-591:1"), A(2),
    L("service@591:7-591:28"), A(1), L("service@591:34-594:1"), A(2),
    L("service@594:7-594:28"), A(1), L("service@594:34-594:41"), A(2),
    L("service@594:47-597:1"), A(2), L("service@597:7-597:35"), A(1),
    L("service@597:41-597:51"), A(2), L("service@597:57-601:10"), A(2),
    L("service@601:16-601:19"), A(2), L("service@601:25-601:41"), A(1),
    L("service@601:47-602:9"), A(2), L("service@602:15-602:22"), A(2),
    L("service@602:28-602:41"), A(1), L("service@602:47-603:9"), A(2),
    L("service@603:15-603:18"), A(2), L("service@603:24-603:38"), A(1),
    L("service@603:44-604:9"), A(2), L("service@604:15-604:22"), A(2),
    L("service@604:28-604:44"), A(1), L("service@604:50-605:12"), A(2),
    L("service@605:18-605:25"), A(2), L("service@605:31-605:47"), A(1),
    L("service@605:53-612:2")
    >>

\* The format of the API controller scaffold response: the first argument of fmt.Sprintf
\* (internal/tools/produce_api_controller_boilerplate.go, lines 42-218).
ProduceApiControllerBoilerplateFormat == <<
    L("api@42:27-45:42"), A(1), L("api@45:48-48:37"), A(2), L("api@48:43-50:84"), A(2),
    L("api@50:90-58:2"), A(5), L("api@58:8-59:2"), A(5), L("api@59:8-62:5"), A(3),
    L("api@62:11-63:7"), A(3), L("api@63:13-64:7"), A(3), L("api@64:13-65:7"), A(3),
    L("api@65:13-66:5"), A(3), L("api@66:11-67:4"), A(3), L("api@67:10-70:5"), A(3),
    L("api@70:11-71:1"), A(4), L("api@71:7-71:22"), A(3), L("api@71:28-74:8"), A(3),
    L("api@74:14-74:24"), A(4), L("api@74:30-74:45"), A(3), L("api@74:51-74:59"), A(3),
    L("api@74:65-75:9"), A(3), L("api@75:15-75:29"), A(4), L("api@75:35-75:43"), A(4),
    L("api@75:49-87:2"), A(5), L("api@87:8-90:12"), A(3), L("api@90:18-90:39"), A(3),
    L("api@90:45-91:22"), A(3), L("api@91:28-96:21"), A(4), L("api@96:27-113:2"), A(5),
    L("api@113:8-116:12"), A(3), L("api@116:18-116:39"), A(3), L("api@116:45-122:22"), A(3),
    L("api@122:28-129:21"), A(4), L("api@129:27-148:12"), A(3), L("api@148:18-148:39"),
    A(3), L("api@148:45-153:16"), A(4), L("api@153:22-171:12"), A(3),
    L("api@171:18-171:37"), A(3), L("api@171:43-186:21"), A(4), L("api@186:27-205:12"),
    A(3), L("api@205:18-205:36"), A(3), L("api@205:42-211:21"), A(4), L("api@211:27-217:10")
    >>

\* The format of the HTML controller scaffold response: the first argument of fmt.Sprintf
\* (internal/tools/produce_app_boilerplate.go, lines 185-1016).
ProduceHtmlControllerBoilerplateFormat == <<
    L("html@185:27-188:43"), A(1), L("html@188:49-239:23"), Percent,
    L("html@239:30-240:26"), Percent, L("html@240:33-241:22"), Percent,
    L("html@241:30-242:33"), Percent, L("html@242:41-243:20"), Percent,
    L("html@243:27-244:34"), Percent, L("html@244:41-245:17"), Percent,
    L("html@245:24-246:31"), Percent, L("html@246:38-247:23"), Percent,
    L("html@247:29-248:22"), Percent, L("html@248:28-249:24"), Percent,
    L("html@249:30-250:31"), Percent, L("html@250:37-251:26"), Percent,
    L("html@251:34-252:37"), Percent, L("html@252:43-253:23"), Percent,
    L("html@253:31-254:34"), Percent, L("html@254:40-255:27"), Percent,
    L("html@255:35-256:35"), Percent, L("html@256:41-257:21"), Percent,
    L("html@257:27-262:26"), Percent, L("html@262:33-263:23"), Percent,
    L("html@263:29-264:22"), Percent, L("html@264:30-265:31"), Percent,
    L("html@265:39-266:23"), Percent, L("html@266:30-267:31"), Percent,
    L("html@267:37-268:20"), Percent, L("html@268:27-269:28"), Percent,
    L("html@269:34-270:23"), Percent, L("html@270:31-271:22"), Percent,
    L("html@271:30-272:20"), Percent, L("html@272:26-273:35"), Percent,
    L("html@273:41-274:26"), Percent, L("html@274:34-275:33"), Percent,
    L("html@275:39-276:23"), Percent, L("html@276:31-277:30"), Percent,
    L("html@277:36-278:27"), Percent, L("html@278:35-279:35"), Percent,
    L("html@279:41-280:21"), Percent, L("html@280:29-335:47"), A(2), L("html@335:53-344:2"),
    A(5), L("html@344:8-404:41"), A(5), L("html@404:47-406:14"), A(2),
    L("html@406:20-406:46"), A(1), L("html@406:52-420:8"), A(5), L("html@420:14-421:8"),
    A(5), L("html@421:14-483:14"), A(1), L("html@483:20-485:26"), A(2),
    L("html@485:32-488:8"), A(2), L("html@488:14-491:2"), A(5), L("html@491:8-492:2"), A(5),
    L("html@492:8-493:2"), A(5), L("html@493:8-494:2"), A(5), L("html@494:8-495:2"), A(5),
    L("html@495:8-498:24"), A(3), L("html@498:30-502:35"), A(1), L("html@502:41-503:14"),
    A(2), L("html@503:20-505:13"), A(1), L("html@505:19-515:6"), A(1),
    L("html@515:12-518:42"), A(1), L("html@518:48-518:89"), A(1), L("html@518:95-544:35"),
    A(2), L("html@544:41-552:35"), A(2), L("html@552:41-560:40"), A(2),
    L("html@560:46-560:145"), A(2), L("html@560:151-584:45"), A(2), L("html@584:51-584:57"),
    N("d"), L("html@584:60-584:66"), N("d"), L("html@584:69-594:45"), A(2),
    L("html@594:51-594:57"), N("d"), L("html@594:60-594:66"), N("d"),
    L("html@594:69-618:26"), A(2), L("html@618:32-621:8"), A(2), L("html@621:14-624:2"),
    A(5), L("html@624:8-625:2"), A(5), L("html@625:8-626:2"), A(5), L("html@626:8-627:2"),
    A(5), L("html@627:8-628:2"), A(5), L("html@628:8-631:20"), A(3),
    L("html@631:26-635:14"), A(2), L("html@635:20-639:16"), A(1), L("html@639:22-651:6"),
    A(1), L("html@651:12-654:39"), A(1), L("html@654:45-654:74"), A(1),
    L("html@654:80-661:36"), A(1), L("html@661:42-663:32"), A(2), L("html@663:38-668:37"),
    A(2), L("html@668:43-668:142"), A(2), L("html@668:148-701:26"), A(2),
    L("html@701:32-704:8"), A(2), L("html@704:14-707:2"), A(5), L("html@707:8-708:2"), A(5),
    L("html@708:8-709:2"), A(5), L("html@709:8-710:2"), A(5), L("html@710:8-711:2"), A(5),
    L("html@711:8-712:2"), A(5), L("html@712:8-722:36"), A(3), L("html@722:42-726:14"),
    A(2), L("html@726:20-730:16"), A(1), L("html@730:22-738:17"), A(1),
    L("html@738:23-740:11"), A(1), L("html@740:17-798:16"), A(2), L("html@798:22-809:15"),
    A(1), L("html@809:21-811:15"), A(1), L("html@811:21-823:35"), A(2),
    L("html@823:41-833:2"), A(5), L("html@833:8-834:2"), A(5), L("html@834:8-835:2"), A(5),
    L("html@835:8-835:14"), A(2), L("html@835:20-838:5"), A(3), L("html@838:11-848:5"),
    A(3), L("html@848:11-849:1"), A(4), L("html@849:7-849:22"), A(3),
    L("html@849:28-852:8"), A(3), L("html@852:14-852:28"), A(4), L("html@852:34-852:49"),
    A(3), L("html@852:55-852:63"), A(3), L("html@852:69-853:9"), A(3),
    L("html@853:15-853:33"), A(4), L("html@853:39-853:47"), A(4), L("html@853:53-857:12"),
    A(3), L("html@857:18-872:21"), A(4), L("html@872:27-877:8"), A(2),
    L("html@877:14-881:12"), A(3), L("html@881:18-887:21"), A(4), L("html@887:27-892:8"),
    A(2), L("html@892:14-896:12"), A(3), L("html@896:18-898:14"), A(3),
    L("html@898:20-899:8"), A(2), L("html@899:14-899:24"), A(2), L("html@899:30-903:12"),
    A(3), L("html@903:18-904:22"), A(3), L("html@904:28-907:15"), A(3),
    L("html@907:21-909:9"), A(2), L("html@909:15-909:25"), A(2), L("html@909:31-913:21"),
    A(4), L("html@913:27-916:15"), A(3), L("html@916:21-922:9"), A(2),
    L("html@922:15-922:25"), A(2), L("html@922:31-926:42"), A(2), L("html@926:48-930:12"),
    A(3), L("html@930:18-936:21"), A(4), L("html@936:27-941:8"), A(2),
    L("html@941:14-941:24"), A(2), L("html@941:30-945:12"), A(3), L("html@945:18-951:22"),
    A(3), L("html@951:28-954:20"), A(4), L("html@954:26-956:9"), A(2),
    L("html@956:15-956:25"), A(2), L("html@956:31-961:21"), A(4), L("html@961:27-964:18"),
    A(4), L("html@964:24-966:9"), A(2), L("html@966:15-966:25"), A(2),
    L("html@966:31-970:42"), A(2), L("html@970:48-974:12"), A(3), L("html@974:18-980:16"),
    A(4), L("html@980:22-985:42"), A(2), L("html@985:48-993:31"), A(4),
    L("html@994:6-994:38"), A(3), L("html@994:44-994:58"), A(4), L("html@994:64-997:8"),
    A(2), L("html@997:14-997:17"), A(4), L("html@997:23-998:8"), A(2),
    L("html@998:14-998:21"), A(4), L("html@998:27-999:9"), A(2), L("html@999:15-999:18"),
    A(4), L("html@999:24-1000:8"), A(2), L("html@1000:14-1000:21"), A(4),
    L("html@1000:27-1001:8"), A(2), L("html@1001:14-1001:26"), A(4),
    L("html@1001:32-1002:9"), A(2), L("html@1002:15-1002:22"), A(4),
    L("html@1002:28-1003:9"), A(2), L("html@1003:15-1003:29"), A(4),
    L("html@1003:35-1015:41")
    >>

-----------------------------------------------------------------------------
(* produce_app_boilerplate.                                                *)

\* ProduceAppBoilerplateHandler writing the module name in lower case.
ProduceAppBoilerplateReturnLowerName(args) ==
    LET appName == RequireString(args, "app_name")
    IN  IF ~ appName.ok
        THEN Return(NewToolResultError(ErrorGetting("app_name", appName.err)))
        ELSE Return(NewToolResultText(
                 Sprintf(ProduceAppBoilerplateFormat,
                         <<Str(appName.str), Str(appName.str), Str(appName.str),
                           Str(appName.str), Str(appName.str),
                           Str(ToLower(appName.str))>>)))

\* ProduceAppBoilerplateHandler refusing an empty app_name as the other
\* scaffold handlers do.
ProduceAppBoilerplateReturnNonEmpty(args) ==
    LET appName == RequireString(args, "app_name")
    IN  IF ~ appName.ok
        THEN Return(NewToolResultError(ErrorGetting("app_name", appName.err)))
        ELSE IF appName.str = <<>>
        THEN Return(NewToolResultError(<<Lit("App name is required")>>))
        ELSE Return(NewToolResultText(
                 Sprintf(ProduceAppBoilerplateFormat,
                         <<Str(appName.str), Str(appName.str), Str(appName.str),
                           Str(appName.str), Str(appName.str), Str(appName.str)>>)))

\* ProduceAppBoilerplateHandler, from its request to what it returns.
ProduceAppBoilerplateReturn(args) ==
    LET appName == RequireString(args, "app_name")
    IN  IF ~ appName.ok
        THEN Return(NewToolResultError(ErrorGetting("app_name", appName.err)))
        ELSE Return(NewToolResultText(
                 Sprintf(ProduceAppBoilerplateFormat,
                         <<Str(appName.str), Str(appName.str), Str(appName.str),
                           Str(appName.str), Str(appName.str), Str(appName.str)>>)))

\* The format of the app scaffold response of unnamed/part_003: the first
\* argument of fmt.Sprintf (unnamed/part_003, lines 31-211).
StartHereProduceAppBoilerplateFormat == <<
    L("start@31:27-34:38"), A(1), L("start@34:44-37:16"), A(1), L("start@37:22-39:36"),
    A(1), L("start@39:42-64:10"), A(1), L("start@64:16-64:31"), A(1),
    L("start@64:37-67:10"), A(1), L("start@67:16-69:33"), A(1), L("start@69:39-70:105"),
    A(1), L("start@70:111-80:32"), A(1), L("start@80:38-92:2"), A(6), L("start@92:8-93:2"),
    A(6), L("start@93:8-94:2"), A(6), L("start@94:8-95:2"), A(6), L("start@95:8-149:36"),
    A(1), L("start@149:42-159:38"), A(1), L("start@159:44-171:45"), A(1),
    L("start@171:51-179:46"), A(1), L("start@179:52-198:3"), A(1), L("start@198:9-206:3"),
    A(1), L("start@206:9-210:1")
    >>

\* ProduceAppBoilerplateHandler of unnamed/part_003, from its request to what
\* it returns.
StartHereProduceAppBoilerplateReturn(args) ==
    LET appName == RequireString(args, "app_name")
    IN  IF ~ appName.ok
        THEN Return(NewToolResultError(ErrorGetting("app_name", appName.err)))
        ELSE Return(NewToolResultText(
                 Sprintf(StartHereProduceAppBoilerplateFormat,
                         <<Str(appName.str), Str(appName.str), Str(appName.str),
                           Str(appName.str), Str(appName.str), Str(appName.str)>>)))

-----------------------------------------------------------------------------
(* produce_service_boilerplate, produce_api_controller_boilerplate and     *)
(* produce_html_controller_boilerplate.                                    *)

\* The error of the handlers that want an app name.
AppNameRequired == <<Lit("App name is required")>>

\* ProduceServiceBoilerplateHandler formatting with the model name as it was
\* given where the source passes its titled form.
ProduceServiceBoilerplateReturnRawName(args) ==
    LET appName == GetString(args, "app_name", <<>>)
        modelName == RequireString(args, "model_name")
        lowerModelName == ToLower(modelName.str)
    IN  IF appName = <<>>
        THEN Return(NewToolResultError(AppNameRequired))
        ELSE IF ~ modelName.ok
        THEN Return(NewToolResultError(ErrorGetting("model_name", modelName.err)))
        ELSE Return(NewToolResultText(
                 Sprintf(ProduceServiceBoilerplateFormat,
                         <<Str(modelName.str), Str(lowerModelName), Str(appName)>>)))

\* ProduceServiceBoilerplateHandler, from its request to what it returns.
ProduceServiceBoilerplateReturn(args) ==
    LET appName == GetString(args, "app_name", <<>>)
        modelName == RequireString(args, "model_name")
        titleModelName == Title(modelName.str)
        lowerModelName == ToLower(modelName.str)
    IN  IF appName = <<>>
        THEN Return(NewToolResultError(AppNameRequired))
        ELSE IF ~ modelName.ok
        THEN Return(NewToolResultError(ErrorGetting("model_name", modelName.err)))
        ELSE Return(NewToolResultText(
                 Sprintf(ProduceServiceBoilerplateFormat,
                         <<Str(titleModelName), Str(lowerModelName), Str(appName)>>)))

\* ProduceApiControllerBoilerplateHandler, from its request to what it returns.
ProduceApiControllerBoilerplateReturn(args) ==
    LET appName == GetString(args, "app_name", <<>>)
        modelName == RequireString(args, "model_name")
        titleModelName == Title(modelName.str)
        lowerModelName == ToLower(modelName.str)
    IN  IF appName = <<>>
        THEN Return(NewToolResultError(AppNameRequired))
        ELSE IF ~ modelName.ok
        THEN Return(NewToolResultError(ErrorGetting("model_name", modelName.err)))
        ELSE Return(NewToolResultText(
                 Sprintf(ProduceApiControllerBoilerplateFormat,
                         <<Str(titleModelName), Str(lowerModelName), Str(titleModelName),
                           Str(lowerModelName), Str(appName)>>)))

\* ProduceHtmlControllerBoilerplateHandler, from its request to what it returns.
ProduceHtmlControllerBoilerplateReturn(args) ==
    LET appName == GetString(args, "app_name", <<>>)
        modelName == RequireString(args, "model_name")
        titleModelName == Title(modelName.str)
        lowerModelName == ToLower(modelName.str)
    IN  IF appName = <<>>
        THEN Return(NewToolResultError(AppNameRequired))
        ELSE IF ~ modelName.ok
        THEN Return(NewToolResultError(ErrorGetting("model_name", modelName.err)))
        ELSE Return(NewToolResultText(
                 Sprintf(ProduceHtmlControllerBoilerplateFormat,
                         <<Str(titleModelName), Str(lowerModelName), Str(titleModelName),
                           Str(lowerModelName), Str(appName)>>)))

-----------------------------------------------------------------------------
(* produce_model_boilerplate.                                              *)

\* The format of a field line: "\t%s %s 'json:\"%s\"'".
StructFieldFormat == <<L("\t"), N("s"), L(" "), N("s"), L(" 'json:\""), N("s"), L("\"'")>>

\* The format of modelContent, the struct declaration.
ModelContentFormat ==
    <<L("package models\n\nimport \"gorm.io/gorm\"\n\ntype "), N("s"),
      L(" struct {\n\tgorm.Model\n"), N("s"), L("\n}\n")>>

\* The json tag is written in lower case.
StructFieldLowerTag(field) ==
    LET name == MapIndex(field, "name")
        fieldType == MapIndex(field, "type")
    IN  Sprintf(StructFieldFormat, <<Str(Title(name)), Str(fieldType), Str(ToLower(name))>>)

\* The line of one descriptor: the capitalized name, the type, the json tag.
StructField(field) ==
    LET name == MapIndex(field, "name")
        fieldType == MapIndex(field, "type")
    IN  Sprintf(StructFieldFormat, <<Str(Title(name)), Str(fieldType), Str(name)>>)

\* The line is put in front of the lines already there.
AppendFieldInFront(structFields, line) == <<line>> \o structFields

\* A descriptor without a name is passed over.
AppendFieldIfNamed(structFields, line) ==
    IF line[6] = Val(<<>>) THEN structFields ELSE Append(structFields, line)

\* structFields = append(structFields, line)
AppendField(structFields, line) == Append(structFields, line)

\* modelContent
ModelContent(modelName, structFields) ==
    Sprintf(ModelContentFormat, <<Str(Title(modelName)), Join(structFields, <<Lit("\n")>>)>>)

\* The response of ProduceModelBoilerplateHandler.
ProduceModelBoilerplateResponse(appName, modelName, structFields) ==
    LET titleModelName == Title(modelName)
        lowerModelName == ToLower(modelName)
    IN  Sprintf(ProduceModelBoilerplateFormat,
                <<Str(titleModelName), Str(lowerModelName),
                  ModelContent(modelName, structFields),
                  Str(titleModelName), Str(lowerModelName), Str(appName)>>)

\* No handler is running: there are no local variables.
NoFrame == [live |-> FALSE]

\* structFields as a package-level slice that is never emptied: the loop
\* starts with the lines of the model scaffold calls answered so far.
ModelFrameKeepsLines(appName, modelName, fields) ==
    LET answered == {k \in DOMAIN log : /\ log[k].req.tool = "produce_model_boilerplate"
                                         /\ ~ log[k].ret.result.isError}
        last == IF answered = {} THEN 0
                ELSE CHOOSE k \in answered : \A j \in answered : j <= k
    IN  [live |-> TRUE, appName |-> appName, modelName |-> modelName, fields |-> fields,
         structFields |-> IF last = 0 THEN <<>>
                          ELSE FieldLines(log[last].ret.result.content[1].text),
         i |-> 1]

\* The local variables of ProduceModelBoilerplateHandler when its loop starts.
ModelFrame(appName, modelName, fields) ==
    [live |-> TRUE, appName |-> appName, modelName |-> modelName,
     fields |-> fields, structFields |-> <<>>, i |-> 1]

\* The checks with model_name looked at before app_name.
ProduceModelBoilerplateEntryModelNameFirst(args) ==
    LET appName == GetString(args, "app_name", <<>>)
        modelName == RequireString(args, "model_name")
        fieldsJSON == RequireString(args, "fields")
        decoded == Unmarshal(fieldsJSON.str)
    IN  IF ~ modelName.ok
        THEN [ret |-> Return(NewToolResultError(ErrorGetting("model_name", modelName.err))),
              frame |-> NoFrame]
        ELSE IF appName = <<>>
        THEN [ret |-> Return(NewToolResultError(AppNameRequired)), frame |-> NoFrame]
        ELSE IF ~ fieldsJSON.ok
        THEN [ret |-> Return(NewToolResultError(ErrorGetting("fields", fieldsJSON.err))),
              frame |-> NoFrame]
        ELSE IF decoded.err # ""
        THEN [ret |-> Return(NewToolResultError(
                          <<Lit("Invalid 'fields' JSON format: ")>> \o JSONError(decoded.err))),
              frame |-> NoFrame]
        ELSE [ret |-> NoReturn,
              frame |-> ModelFrame(appName, modelName.str, decoded.fields)]

\* The checks with the payload decoded element by element: for a payload
\* that does not decode, the error result carries the struct declaration of
\* the elements decoded so far.
ProduceModelBoilerplateEntryPartial(args) ==
    LET appName == GetString(args, "app_name", <<>>)
        modelName == RequireString(args, "model_name")
        fieldsJSON == RequireString(args, "fields")
        decoded == Unmarshal(fieldsJSON.str)
    IN  IF appName = <<>>
        THEN [ret |-> Return(NewToolResultError(AppNameRequired)), frame |-> NoFrame]
        ELSE IF ~ modelName.ok
        THEN [ret |-> Return(NewToolResultError(ErrorGetting("model_name", modelName.err))),
              frame |-> NoFrame]
        ELSE IF ~ fieldsJSON.ok
        THEN [ret |-> Return(NewToolResultError(ErrorGetting("fields", fieldsJSON.err))),
              frame |-> NoFrame]
        ELSE IF decoded.err # ""
        THEN [ret |-> Return(NewToolResultError(
                          ModelContent(modelName.str,
                                       [i \in DOMAIN decoded.fields |->
                                           StructField(decoded.fields[i])])
                          \o <<Lit("Invalid 'fields' JSON format: ")>>
                          \o JSONError(decoded.err))),
              frame |-> NoFrame]
        ELSE [ret |-> NoReturn,
              frame |-> ModelFrame(appName, modelName.str, decoded.fields)]

\* ProduceModelBoilerplateHandler up to its loop: the checks of the request,
\* each returning an error result, and the decoding of the fields payload.
ProduceModelBoilerplateEntry(args) ==
    LET appName == GetString(args, "app_name", <<>>)
        modelName == RequireString(args, "model_name")
        fieldsJSON == RequireString(args, "fields")
        decoded == Unmarshal(fieldsJSON.str)
    IN  IF appName = <<>>
        THEN [ret |-> Return(NewToolResultError(AppNameRequired)), frame |-> NoFrame]
        ELSE IF ~ modelName.ok
        THEN [ret |-> Return(NewToolResultError(ErrorGetting("model_name", modelName.err))),
              frame |-> NoFrame]
        ELSE IF ~ fieldsJSON.ok
        THEN [ret |-> Return(NewToolResultError(ErrorGetting("fields", fieldsJSON.err))),
              frame |-> NoFrame]
        ELSE IF decoded.err # ""
        THEN [ret |-> Return(NewToolResultError(
                          <<Lit("Invalid 'fields' JSON format: ")>> \o JSONError(decoded.err))),
              frame |-> NoFrame]
        ELSE [ret |-> NoReturn,
              frame |-> ModelFrame(appName, modelName.str, decoded.fields)]

-----------------------------------------------------------------------------
(* createModelHandler of main.go, the handler of the model scaffold before  *)
(* the handlers were moved to package tools.                                *)

\* The format of the response of createModelHandler: the first argument of fmt.Sprintf
\* (main.go, lines 253-422).
createModelFormat == <<
    L("create@253:27-256:23"), A(1), L("create@256:29-258:52"), A(2),
    L("create@258:58-259:12"), A(3), L("create@260:6-264:36"), A(2),
    L("create@264:42-266:83"), A(2), L("create@266:89-275:2"), A(6),
    L("create@275:8-278:5"), A(4), L("create@278:11-279:29"), A(5),
    L("create@279:35-279:43"), A(4), L("create@279:49-280:29"), A(5),
    L("create@280:35-280:43"), A(4), L("create@280:49-282:68"), A(4),
    L("create@282:74-285:5"), A(4), L("create@285:11-289:8"), A(4),
    L("create@289:14-289:37"), A(4), L("create@289:43-290:9"), A(4),
    L("create@290:15-300:2"), A(6), L("create@300:8-303:9"), A(4),
    L("create@303:15-303:58"), A(5), L("create@303:64-303:72"), A(4),
    L("create@303:78-304:37"), A(5), L("create@304:43-314:2"), A(6),
    L("create@314:8-317:9"), A(4), L("create@317:15-317:58"), A(5),
    L("create@317:64-317:72"), A(4), L("create@317:78-318:35"), A(5),
    L("create@318:41-328:2"), A(6), L("create@328:8-331:9"), A(4),
    L("create@331:15-332:45"), A(4), L("create@332:51-343:2"), A(6),
    L("create@343:8-346:9"), A(4), L("create@346:15-346:97"), A(4),
    L("create@346:103-347:5"), A(5), L("create@347:11-347:20"), A(4),
    L("create@347:26-350:35"), Percent, L("create@350:38-352:20"), A(5),
    L("create@352:26-353:8"), A(5), L("create@353:14-379:2"), A(6), L("create@379:8-380:2"),
    A(6), L("create@380:8-381:2"), A(6), L("create@381:8-421:10")
    >>

\* The loop of createModelHandler with the json tag written in lower case.
createModelStructFieldsLowerTag(fields) ==
    [i \in DOMAIN fields |-> StructFieldLowerTag(fields[i])]

\* structFields after the loop of createModelHandler over fields: one line
\* appended per descriptor.
createModelStructFields(fields) ==
    [i \in DOMAIN fields |-> StructField(fields[i])]

\* createModelHandler, from its request to what it returns.
createModelHandler(args) ==
    LET appName == GetString(args, "app_name", <<>>)
        modelName == RequireString(args, "model_name")
        fieldsJSON == RequireString(args, "fields")
        decoded == Unmarshal(fieldsJSON.str)
        titleModelName == Title(modelName.str)
        lowerModelName == ToLower(modelName.str)
    IN  IF appName = <<>>
        THEN Return(NewToolResultError(<<Lit("App name is required")>>))
        ELSE IF ~ modelName.ok
        THEN Return(NewToolResultError(ErrorGetting("model_name", modelName.err)))
        ELSE IF ~ fieldsJSON.ok
        THEN Return(NewToolResultError(ErrorGetting("fields", fieldsJSON.err)))
        ELSE IF decoded.err # ""
        THEN Return(NewToolResultError(
                 <<Lit("Invalid 'fields' JSON format: ")>> \o JSONError(decoded.err)))
        ELSE Return(NewToolResultText(
                 Sprintf(createModelFormat,
                         <<Str(titleModelName), Str(lowerModelName),
                           ModelContent(modelName.str,
                                        createModelStructFields(decoded.fields)),
                           Str(titleModelName), Str(lowerModelName), Str(appName)>>)))

-----------------------------------------------------------------------------
(* The requests the model tries.                                           *)

\* All sequences over S of length at most n.
SeqsUpTo(S, n) == UNION {[1..k -> S] : k \in 0..n}

\* The concatenation of a sequence of sequences.
ConcatAll(parts) == ConcatRange(parts, 1, Len(parts))

Request(tool, appName, modelName, fields, errorMessage) ==
    [tool |-> tool,
     args |-> [app_name |-> appName, model_name |-> modelName,
               fields |-> fields, error_message |-> errorMessage]]

NoRequest == Request("", ArgAbsent, ArgAbsent, ArgAbsent, ArgAbsent)

shop == <<"s", "h", "o", "p">>

user == <<"u", "s", "e", "r">>

\* An application name with a capital letter inside.
myShop == <<"m", "y", "S", "h", "o", "p">>

AppNameArgs == {ArgAbsent, ArgNumber, ArgString(<<>>), ArgString(shop), ArgString(myShop)}

ModelNames == {<<>>, user, <<"U", "s", "e", "r">>, <<"l", "i", "n", "e", " ", "i", "t", "e", "m">>}

ModelNameArgs == {ArgAbsent, ArgNumber} \cup {ArgString(n) : n \in ModelNames}

\* Names and types of descriptors.
FieldNames == {<<>>, <<"i", "d">>, <<"I", "d">>}

FieldTypes == {<<>>, <<"u", "i", "n", "t">>}

\* The elements of the arrays tried as fields payloads: descriptors with a
\* name and a type, and elements that lack a key, carry one more key, repeat
\* a key, hold a null or a number, or are no object at all.
Descriptor(name, type) ==
    JObject(<<Member("name", JString(name)), Member("type", JString(type))>>)

PlainElements == {Descriptor(n, t) : n \in FieldNames, t \in FieldTypes}

OddElements ==
    {JObject(<<>>),
     JObject(<<Member("type", JString(<<"u", "i", "n", "t">>))>>),
     JObject(<<Member("name", JString(<<"i", "d">>))>>),
     JObject(<<Member("name", JString(<<"i", "d">>)), Member("type", JString(<<"u", "i", "n", "t">>)),
               Member("gorm", JString(<<"k", "e", "y">>))>>),
     JObject(<<Member("name", JString(<<"i", "d">>)), Member("type", JString(<<"u", "i", "n", "t">>)),
               Member("name", JString(<<"I", "d">>))>>),
     JObject(<<Member("name", JNull), Member("type", JString(<<"u", "i", "n", "t">>))>>),
     JNull}

BadElements ==
    {JObject(<<Member("name", JString(<<"i", "d">>)), Member("type", JNumber)>>),
     JNumber}

Elements == PlainElements \cup OddElements \cup BadElements

\* The fields payloads: text that is not JSON, and the JSON texts of null, of
\* a number, of an object and of the arrays of at most MaxFields elements.
Payloads ==
    {NotJSON, JSONText(JNull), JSONText(JNumber), JSONText(Descriptor(<<"i", "d">>, <<"u", "i", "n", "t">>))}
    \cup {JSONText(JArray(es)) : es \in SeqsUpTo(Elements, MaxFields)}

\* The fields arguments tried with every app_name and model_name.
FewFieldsArgs ==
    {ArgAbsent, ArgNumber, ArgString(NotJSON), ArgString(JSONText(JArray(<<>>))),
     ArgString(JSONText(JArray(<<Descriptor(<<"i", "d">>, <<"u", "i", "n", "t">>)>>)))}

\* The error_messages: up to MaxErrParts fragments in a row, so that the
\* substring "is not in std" also comes up across two fragments.
ErrFragments ==
    {NotInStd, <<"i", "s", " ", "n", "o", "t", " ">>, <<"i", "n", " ", "s", "t", "d">>,
     <<"i", "n", " ", "s", "t">>, <<"d">>, <<"x">>}

ErrorMessages == {ConcatAll(parts) : parts \in SeqsUpTo(ErrFragments, MaxErrParts)}

ErrorMessageArgs == {ArgAbsent, ArgNumber} \cup {ArgString(m) : m \in ErrorMessages}

\* The names the two definitions of the app scaffold tool give it.
AppTools == {"produce_app_boilerplate", "start_here_produce_app_boilerplate"}

AppRequests ==
    {Request(tool, a, ArgAbsent, ArgAbsent, ArgAbsent) : tool \in AppTools, a \in AppNameArgs}

\* The fields of the example the app scaffold of unnamed/part_003 gives for
\* the model scaffold: fields="ID:uint,Name:string,Email:string,
\* CreatedAt:time.Time,UpdatedAt:time.Time".
ExampleFields ==
    <<"I", "D", ":", "u", "i", "n", "t", ",", "N", "a", "m", "e", ":", "s", "t", "r", "i", "n", "g", ",",
      "E", "m", "a", "i", "l", ":", "s", "t", "r", "i", "n", "g", ",",
      "C", "r", "e", "a", "t", "e", "d", "A", "t", ":", "t", "i", "m", "e", ".", "T", "i", "m", "e", ",",
      "U", "p", "d", "a", "t", "e", "d", "A", "t", ":", "t", "i", "m", "e", ".", "T", "i", "m", "e">>

\* The example invocation, for an app name: produce_model_boilerplate
\* app_name="<app>" model_name="User" fields="ID:uint,...".
ExampleRequest(appName) ==
    Request("produce_model_boilerplate", ArgString(appName), ArgString(<<"U", "s", "e", "r">>),
            ArgString(TextPayload(ExampleFields)), ArgAbsent)

ModelRequests ==
    {Request("produce_model_boilerplate", a, m, f, ArgAbsent) :
        a \in AppNameArgs, m \in ModelNameArgs, f \in FewFieldsArgs}
    \cup {Request("produce_model_boilerplate", ArgString(shop), ArgString(user), ArgString(f), ArgAbsent) :
        f \in Payloads}
    \cup {ExampleRequest(shop)}

ServiceRequests ==
    {Request("produce_service_boilerplate", a, m, ArgAbsent, ArgAbsent) :
        a \in AppNameArgs, m \in ModelNameArgs}

ApiControllerRequests ==
    {Request("produce_api_controller_boilerplate", a, m, ArgAbsent, ArgAbsent) :
        a \in AppNameArgs, m \in ModelNameArgs}

HtmlControllerRequests ==
    {Request("produce_html_controller_boilerplate", a, m, ArgAbsent, ArgAbsent) :
        a \in AppNameArgs, m \in ModelNameArgs}

FixAppRequests ==
    {Request("fix_app", a, ArgAbsent, ArgAbsent, e) :
        a \in AppNameArgs \cup {ArgString(NotInStd)}, e \in ErrorMessageArgs}

Requests ==
    AppRequests \cup ModelRequests \cup ServiceRequests \cup ApiControllerRequests
    \cup HtmlControllerRequests \cup FixAppRequests

-----------------------------------------------------------------------------
(* The tools main registers with the server before it serves.  A handler   *)
(* is written by the name of its function; the sources hold two            *)
(* definitions of GetProduceAppBoilerplateTool and of its handler, and the  *)
(* one of unnamed/part_003 is written with StartHere in its name.           *)

\* What a Get...Tool function returns: the tool (its name) and its handler.
ServerTool(name, handler) == [name |-> name, handler |-> handler]

GetProduceAppBoilerplateTool ==
    ServerTool("produce_app_boilerplate", "ProduceAppBoilerplateHandler")

GetStartHereProduceAppBoilerplateTool ==
    ServerTool("start_here_produce_app_boilerplate", "StartHereProduceAppBoilerplateHandler")

GetProduceModelBoilerplateTool ==
    ServerTool("produce_model_boilerplate", "ProduceModelBoilerplateHandler")

GetProduceServiceBoilerplateTool ==
    ServerTool("produce_service_boilerplate", "ProduceServiceBoilerplateHandler")

GetProduceApiControllerBoilerplateTool ==
    ServerTool("produce_api_controller_boilerplate", "ProduceApiControllerBoilerplateHandler")

GetProduceHtmlControllerBoilerplateTool ==
    ServerTool("produce_html_controller_boilerplate", "ProduceHtmlControllerBoilerplateHandler")

GetFixAppTool == ServerTool("fix_app", "FixAppHandler")

\* The parameters the schema of a tool marks with mcp.Required().
Required(name) ==
    IF name \in {"produce_app_boilerplate", "start_here_produce_app_boilerplate"}
    THEN {"app_name"}
    ELSE IF name = "produce_model_boilerplate" THEN {"model_name", "fields"}
    ELSE IF name = "fix_app" THEN {}
    ELSE {"model_name"}

\* server.NewMCPServer: a server with no tool.
NewMCPServer == [name \in {} |-> ""]

\* s.AddTool(tool, handler): the handler is stored under the name of the
\* tool, in place of a handler stored under that name before.
AddTool(registry, tool) ==
    [name \in DOMAIN registry \cup {tool.name} |->
        IF name = tool.name THEN tool.handler ELSE registry[name]]

\* A hint that sends the caller of the html controller scaffold back to the
\* app scaffold.
NextRecommendedStepRestart(handler) ==
    IF handler \in {"ProduceAppBoilerplateHandler", "StartHereProduceAppBoilerplateHandler"}
    THEN {"produce_model_boilerplate"}
    ELSE IF handler = "ProduceModelBoilerplateHandler" THEN {"produce_service_boilerplate"}
    ELSE IF handler = "ProduceServiceBoilerplateHandler"
    THEN {"produce_api_controller_boilerplate", "produce_html_controller_boilerplate"}
    ELSE IF handler = "ProduceApiControllerBoilerplateHandler"
    THEN {"produce_html_controller_boilerplate"}
    ELSE IF handler = "ProduceHtmlControllerBoilerplateHandler"
    THEN {"produce_app_boilerplate"}
    ELSE {}

\* The tool names quoted in the "Next recommended step" text main appends to
\* the description of the tool with the handler; main appends none to the
\* description of fix_app.
NextRecommendedStep(handler) ==
    IF handler \in {"ProduceAppBoilerplateHandler", "StartHereProduceAppBoilerplateHandler"}
    THEN {"produce_model_boilerplate"}
    ELSE IF handler = "ProduceModelBoilerplateHandler" THEN {"produce_service_boilerplate"}
    ELSE IF handler = "ProduceServiceBoilerplateHandler"
    THEN {"produce_api_controller_boilerplate", "produce_html_controller_boilerplate"}
    ELSE IF handler = "ProduceApiControllerBoilerplateHandler"
    THEN {"produce_html_controller_boilerplate"}
    ELSE IF handler = "ProduceHtmlControllerBoilerplateHandler"
    THEN {"fix_app"}
    ELSE {}

\* The tools main adds, in the order of its AddTool calls.
AddedTools(appTool) ==
    <<appTool, GetProduceModelBoilerplateTool, GetProduceServiceBoilerplateTool,
      GetProduceApiControllerBoilerplateTool, GetProduceHtmlControllerBoilerplateTool,
      GetFixAppTool>>

\* The server after the first n AddTool calls.
RECURSIVE AddTools(_, _)
AddTools(added, n) ==
    IF n = 0 THEN NewMCPServer ELSE AddTool(AddTools(added, n - 1), added[n])

\* main up to server.ServeStdio, with one of the two app scaffold tools.
main(appTool) == AddTools(AddedTools(appTool), Len(AddedTools(appTool)))

\* The servers the sources build.
Servers == {main(GetProduceAppBoilerplateTool), main(GetStartHereProduceAppBoilerplateTool)}

-----------------------------------------------------------------------------
(* The server.  An invocation is one run of a handler, from the request    *)
(* the server hands it to the result it returns.  The server of Spec and   *)
(* of SpecLog takes one call at a time; the server of SpecConc has two     *)
(* handlers running at once.                                               *)

Procs == {1, 2}

\* The invocation of the server that takes one call at a time.
Serial == {1}

\* The handler returns: its local variables are gone, and the call is
\* written to the log when the log is kept.
Completes(p, r, ret, keep) ==
    /\ pc' = [pc EXCEPT ![p] = "done"]
    /\ req' = [req EXCEPT ![p] = r]
    /\ frame' = [frame EXCEPT ![p] = NoFrame]
    /\ result' = [result EXCEPT ![p] = ret]
    /\ log' = IF keep THEN Append(log, [req |-> r, ret |-> ret]) ELSE log
    /\ UNCHANGED <<tools, s, caps>>

\* The server hands request r to the handler registered under its tool name.
Accepts(p, r, handler, keep) ==
    /\ pc[p] = "idle"
    /\ r.tool \in DOMAIN tools
    /\ tools[r.tool] = handler
    /\ keep => Len(log) < MaxCalls

ProduceAppBoilerplateHandler(p, r, keep) ==
    /\ Accepts(p, r, "ProduceAppBoilerplateHandler", keep)
    /\ Completes(p, r, ProduceAppBoilerplateReturn(r.args), keep)

\* ProduceAppBoilerplateHandler of unnamed/part_003.
StartHereProduceAppBoilerplateHandler(p, r, keep) ==
    /\ Accepts(p, r, "StartHereProduceAppBoilerplateHandler", keep)
    /\ Completes(p, r, StartHereProduceAppBoilerplateReturn(r.args), keep)

ProduceServiceBoilerplateHandler(p, r, keep) ==
    /\ Accepts(p, r, "ProduceServiceBoilerplateHandler", keep)
    /\ Completes(p, r, ProduceServiceBoilerplateReturn(r.args), keep)

ProduceApiControllerBoilerplateHandler(p, r, keep) ==
    /\ Accepts(p, r, "ProduceApiControllerBoilerplateHandler", keep)
    /\ Completes(p, r, ProduceApiControllerBoilerplateReturn(r.args), keep)

ProduceHtmlControllerBoilerplateHandler(p, r, keep) ==
    /\ Accepts(p, r, "ProduceHtmlControllerBoilerplateHandler", keep)
    /\ Completes(p, r, ProduceHtmlControllerBoilerplateReturn(r.args), keep)

FixAppHandler(p, r, keep) ==
    /\ Accepts(p, r, "FixAppHandler", keep)
    /\ Completes(p, r, FixAppReturn(r.args), keep)

\* ProduceModelBoilerplateHandler up to its loop: it returns an error result,
\* or enters the loop over the decoded descriptors with structFields empty.
ProduceModelBoilerplateHandler(p, r, keep) ==
    /\ Accepts(p, r, "ProduceModelBoilerplateHandler", keep)
    /\ LET entry == ProduceModelBoilerplateEntry(r.args)
       IN  IF entry.ret.returned
           THEN Completes(p, r, entry.ret, keep)
           ELSE /\ pc' = [pc EXCEPT ![p] = "loop"]
                /\ req' = [req EXCEPT ![p] = r]
                /\ frame' = [frame EXCEPT ![p] = entry.frame]
                /\ result' = [result EXCEPT ![p] = NoReturn]
                /\ UNCHANGED <<tools, log, s, caps>>

\* A turn of the loop that does not move on to the next descriptor.
ModelLoopStuck(p) ==
    /\ pc[p] = "loop"
    /\ frame[p].i <= Len(frame[p].fields)
    /\ UNCHANGED vars

\* structFields as one slice that all running handlers append to: the line
\* of a turn is added to the structFields of every handler in its loop.
ModelLoopSharedSlice(p) ==
    /\ pc[p] = "loop"
    /\ frame[p].i <= Len(frame[p].fields)
    /\ LET line == StructField(frame[p].fields[frame[p].i])
       IN  frame' = [q \in Procs |->
                        IF q = p
                        THEN [frame[p] EXCEPT !.structFields = AppendField(@, line),
                                              !.i = @ + 1]
                        ELSE IF frame[q].live
                        THEN [frame[q] EXCEPT !.structFields = AppendField(@, line)]
                        ELSE frame[q]]
    /\ UNCHANGED <<tools, pc, req, result, log, s, caps>>

\* One turn of the loop over fields: the line of the next descriptor is
\* appended to structFields.
ModelLoop(p) ==
    /\ pc[p] = "loop"
    /\ frame[p].i <= Len(frame[p].fields)
    /\ frame' = [frame EXCEPT ![p] =
                    [@ EXCEPT !.structFields = AppendField(@, StructField(frame[p].fields[frame[p].i])),
                              !.i = @ + 1]]
    /\ UNCHANGED <<tools, pc, req, result, log, s, caps>>

\* After the loop: the response is built from the locals and returned.
ModelReturn(p, keep) ==
    /\ pc[p] = "loop"
    /\ frame[p].i > Len(frame[p].fields)
    /\ Completes(p, req[p],
                 Return(NewToolResultText(
                     ProduceModelBoilerplateResponse(frame[p].appName, frame[p].modelName,
                                                     frame[p].structFields))),
                 keep)

\* The server is done with the call and waits for the next request.
AwaitRequest(p) ==
    /\ pc[p] = "done"
    /\ pc' = [pc EXCEPT ![p] = "idle"]
    /\ req' = [req EXCEPT ![p] = NoRequest]
    /\ result' = [result EXCEPT ![p] = NoReturn]
    /\ UNCHANGED <<tools, frame, log, s, caps>>

\* The invocations among ps that wait for a request.
IdleOf(ps) == {p \in ps : pc[p] = "idle"}

Idle == IdleOf(Serial)

Init ==
    /\ tools \in Servers
    /\ pc = [p \in Procs |-> "idle"]
    /\ req = [p \in Procs |-> NoRequest]
    /\ frame = [p \in Procs |-> NoFrame]
    /\ result = [p \in Procs |-> NoReturn]
    /\ log = <<>>
    /\ s = <<>>
    /\ caps = <<>>

Next ==
    \/ \E p \in Idle, r \in Requests : ProduceAppBoilerplateHandler(p, r, FALSE)
    \/ \E p \in Idle, r \in Requests : StartHereProduceAppBoilerplateHandler(p, r, FALSE)
    \/ \E p \in Idle, r \in Requests : ProduceModelBoilerplateHandler(p, r, FALSE)
    \/ \E p \in Procs : ModelLoop(p)
    \/ \E p \in Procs : ModelReturn(p, FALSE)
    \/ \E p \in Idle, r \in Requests : ProduceServiceBoilerplateHandler(p, r, FALSE)
    \/ \E p \in Idle, r \in Requests : ProduceApiControllerBoilerplateHandler(p, r, FALSE)
    \/ \E p \in Idle, r \in Requests : ProduceHtmlControllerBoilerplateHandler(p, r, FALSE)
    \/ \E p \in Idle, r \in Requests : FixAppHandler(p, r, FALSE)
    \/ \E p \in Procs : AwaitRequest(p)

Spec == Init /\ [][Next]_vars

-----------------------------------------------------------------------------
(* The server with the log of its completed calls kept, on a few requests  *)
(* of every tool, accepted and refused.                                    *)

idUint == Descriptor(<<"i", "d">>, <<"u", "i", "n", "t">>)

LogRequests ==
    {Request("produce_app_boilerplate", ArgString(shop), ArgAbsent, ArgAbsent, ArgAbsent),
     Request("start_here_produce_app_boilerplate", ArgString(shop), ArgAbsent, ArgAbsent, ArgAbsent),
     Request("produce_model_boilerplate", ArgString(shop), ArgString(user),
             ArgString(JSONText(JArray(<<idUint, Descriptor(<<"I", "d">>, <<>>)>>))), ArgAbsent),
     Request("produce_model_boilerplate", ArgString(shop), ArgString(user),
             ArgString(NotJSON), ArgAbsent),
     Request("produce_model_boilerplate", ArgAbsent, ArgString(user),
             ArgString(JSONText(JArray(<<idUint>>))), ArgAbsent),
     Request("produce_service_boilerplate", ArgString(shop), ArgString(user), ArgAbsent, ArgAbsent),
     Request("produce_service_boilerplate", ArgString(shop), ArgAbsent, ArgAbsent, ArgAbsent),
     Request("produce_api_controller_boilerplate", ArgString(shop), ArgString(user), ArgAbsent, ArgAbsent),
     Request("produce_html_controller_boilerplate", ArgString(shop), ArgString(user), ArgAbsent, ArgAbsent),
     Request("fix_app", ArgString(shop), ArgAbsent, ArgAbsent, ArgString(NotInStd)),
     Request("fix_app", ArgAbsent, ArgAbsent, ArgAbsent, ArgAbsent)}

NextLog ==
    \/ \E p \in Idle, r \in LogRequests : ProduceAppBoilerplateHandler(p, r, TRUE)
    \/ \E p \in Idle, r \in LogRequests : StartHereProduceAppBoilerplateHandler(p, r, TRUE)
    \/ \E p \in Idle, r \in LogRequests : ProduceModelBoilerplateHandler(p, r, TRUE)
    \/ \E p \in Procs : ModelLoop(p)
    \/ \E p \in Procs : ModelReturn(p, TRUE)
    \/ \E p \in Idle, r \in LogRequests : ProduceServiceBoilerplateHandler(p, r, TRUE)
    \/ \E p \in Idle, r \in LogRequests : ProduceApiControllerBoilerplateHandler(p, r, TRUE)
    \/ \E p \in Idle, r \in LogRequests : ProduceHtmlControllerBoilerplateHandler(p, r, TRUE)
    \/ \E p \in Idle, r \in LogRequests : FixAppHandler(p, r, TRUE)
    \/ \E p \in Procs : AwaitRequest(p)

SpecLog == Init /\ [][NextLog]_vars

-----------------------------------------------------------------------------
(* The server with two handlers running at once, their steps interleaved   *)
(* in every order, on the requests of SpecLog.                             *)

NextConc ==
    \/ \E p \in IdleOf(Procs), r \in LogRequests : ProduceAppBoilerplateHandler(p, r, FALSE)
    \/ \E p \in IdleOf(Procs), r \in LogRequests :
           StartHereProduceAppBoilerplateHandler(p, r, FALSE)
    \/ \E p \in IdleOf(Procs), r \in LogRequests : ProduceModelBoilerplateHandler(p, r, FALSE)
    \/ \E p \in Procs : ModelLoop(p)
    \/ \E p \in Procs : ModelReturn(p, FALSE)
    \/ \E p \in IdleOf(Procs), r \in LogRequests : ProduceServiceBoilerplateHandler(p, r, FALSE)
    \/ \E p \in IdleOf(Procs), r \in LogRequests :
           ProduceApiControllerBoilerplateHandler(p, r, FALSE)
    \/ \E p \in IdleOf(Procs), r \in LogRequests :
           ProduceHtmlControllerBoilerplateHandler(p, r, FALSE)
    \/ \E p \in IdleOf(Procs), r \in LogRequests : FixAppHandler(p, r, FALSE)
    \/ \E p \in Procs : AwaitRequest(p)

SpecConc == Init /\ [][NextConc]_vars

\* A handler that can take a step takes it: the Go scheduler runs every
\* goroutine that is not blocked.
Fairness ==
    \A p \in Procs : WF_vars(ModelLoop(p)) /\ WF_vars(ModelReturn(p, FALSE))

SpecLive == SpecConc /\ Fairness

-----------------------------------------------------------------------------
(* The capitalization transform on its own: strings.Title applied to a     *)
(* name, then to its own result, again and again.                          *)

TitleAlphabet == {"a", "B", "1", "_", " ", "-", "U+01C4", "U+01C5", "U+01C6"}

Names == SeqsUpTo(TitleAlphabet, MaxNameLen)

InitTitle ==
    /\ tools \in Servers
    /\ pc = [p \in Procs |-> "idle"]
    /\ req = [p \in Procs |-> NoRequest]
    /\ frame = [p \in Procs |-> NoFrame]
    /\ result = [p \in Procs |-> NoReturn]
    /\ log = <<>>
    /\ s \in Names
    /\ caps = <<>>

ApplyTitle ==
    /\ Len(caps) < MaxApply
    /\ caps' = Append(caps, Title(IF caps = <<>> THEN s ELSE caps[Len(caps)]))
    /\ UNCHANGED <<tools, pc, req, frame, result, log, s>>

NextTitle == ApplyTitle

SpecTitle == InitTitle /\ [][NextTitle]_vars

-----------------------------------------------------------------------------
(* What is read off a state to state the properties.                       *)

ModelTool == "produce_model_boilerplate"

\* Invocation p has returned.
Returned(p) == pc[p] = "done" /\ result[p].returned

\* The text of the result invocation p returned.
TextOf(p) == result[p].result.content[1].text

IsString(arg) == arg.k = "string"

\* The request passes the checks the model handler makes before decoding:
\* a non-empty app_name, a model_name and a fields payload, all strings.
ModelChecksPass(args) ==
    /\ IsString(args.app_name) /\ args.app_name.str # <<>>
    /\ IsString(args.model_name)
    /\ IsString(args.fields)

\* The payload is the text of a JSON array (or null) of objects (or nulls)
\* whose values are strings (or nulls): it decodes to a descriptor list.
IsDescriptor(elem) ==
    \/ elem.t = "null"
    \/ /\ elem.t = "object"
       /\ \A i \in DOMAIN elem.members : elem.members[i].value.t \in {"string", "null"}

DecodesToList(payload) ==
    /\ payload.syntax = "valid"
    /\ \/ payload.value.t = "null"
       \/ /\ payload.value.t = "array"
          /\ \A i \in DOMAIN payload.value.elems : IsDescriptor(payload.value.elems[i])

\* The descriptors of a payload that decodes to a list.
DescriptorsOf(payload) ==
    IF payload.value.t = "array" THEN payload.value.elems ELSE <<>>

\* The string a descriptor supplies under a key: that of the last member with
\* the key, "" when there is none or when it is null.
Supplied(elem, key) ==
    LET at == IF elem.t = "object"
              THEN {i \in DOMAIN elem.members : elem.members[i].key = key}
              ELSE {}
        last == CHOOSE i \in at : \A j \in at : j <= i
    IN  IF at = {} THEN <<>>
        ELSE IF elem.members[last].value.t = "string" THEN elem.members[last].value.str
        ELSE <<>>

\* Invocation p is a model scaffold call that passed every check and returned.
ModelCallDone(p) ==
    /\ Returned(p)
    /\ req[p].tool = ModelTool
    /\ ModelChecksPass(req[p].args)
    /\ DecodesToList(req[p].args.fields.str)

-----------------------------------------------------------------------------
(* C1: for a fields payload that decodes to N descriptors (and a valid     *)
(* app_name and model_name), the struct declaration of the response has     *)
(* exactly N field lines, and the i-th line carries the name and the type   *)
(* of the i-th descriptor: nothing is dropped, merged or reordered.         *)
C1_FieldLinesInInputOrder ==
    \A p \in Procs :
        ModelCallDone(p) =>
            LET ds == DescriptorsOf(req[p].args.fields.str)
                lines == FieldLines(TextOf(p))
            IN  /\ HasStruct(TextOf(p))
                /\ Len(lines) = Len(ds)
                /\ \A i \in DOMAIN ds :
                      /\ lines[i][4] = Val(Supplied(ds[i], "type"))
                      /\ lines[i][6] = Val(Supplied(ds[i], "name"))

\* A call whose two descriptors differ has returned its two field lines.
C1_Witness ==
    \E p \in Procs :
        /\ ModelCallDone(p)
        /\ Len(DescriptorsOf(req[p].args.fields.str)) = 2
        /\ Supplied(DescriptorsOf(req[p].args.fields.str)[1], "name")
               # Supplied(DescriptorsOf(req[p].args.fields.str)[2], "name")
        /\ Len(FieldLines(TextOf(p))) = 2


-----------------------------------------------------------------------------
(* C2: the model scaffold called with an app_name and a model_name it       *)
(* accepts and a fields payload that is not JSON returns an error result    *)
(* whose text starts with "Invalid 'fields' JSON format"; it returns, with  *)
(* a nil Go error, and does not abort.                                      *)
C2_MalformedFieldsIsInputError ==
    \A p \in Procs :
        ( /\ pc[p] # "idle"
          /\ req[p].tool = ModelTool
          /\ ModelChecksPass(req[p].args)
          /\ req[p].args.fields.str.syntax = "invalid" )
        => /\ Returned(p)
           /\ result[p].err = "nil"
           /\ ~ result[p].result.nil
           /\ result[p].result.isError
           /\ TextOf(p)[1] = Lit("Invalid 'fields' JSON format: ")

\* A model scaffold call with a payload that is not JSON has been served.
C2_Witness ==
    \E p \in Procs :
        /\ Returned(p)
        /\ req[p].tool = ModelTool
        /\ ModelChecksPass(req[p].args)
        /\ req[p].args.fields.str = NotJSON
        /\ result[p].result.isError

-----------------------------------------------------------------------------
(* C3.  The tools that take a model_name, and whether a text names a        *)
(* parameter: the parameter's name is one of its literals.                  *)

ModelNameTools ==
    {ModelTool, "produce_service_boilerplate", "produce_api_controller_boilerplate",
     "produce_html_controller_boilerplate"}

NamesParameter(text, key) == \E i \in DOMAIN text : text[i] = Lit(key)

Omitted(arg) == arg.k = "absent"

\* The result of invocation p is an error result that names the parameter.
ErrorNaming(p, key) ==
    /\ ~ result[p].result.nil
    /\ result[p].result.isError
    /\ NamesParameter(TextOf(p), key)

(* C3 as stated: omitting a required parameter yields an error result      *)
(* that names that parameter (model_name for the four tools that take one, *)
(* fields for the model scaffold, app_name for the app scaffold), whatever  *)
(* the other parameters are.                                                *)
C3_OmittedParameterIsNamed ==
    \A p \in Procs :
        Returned(p) =>
            /\ (req[p].tool \in ModelNameTools /\ Omitted(req[p].args.model_name))
                   => ErrorNaming(p, "model_name")
            /\ (req[p].tool = ModelTool /\ Omitted(req[p].args.fields))
                   => ErrorNaming(p, "fields")
            /\ (req[p].tool \in AppTools /\ Omitted(req[p].args.app_name))
                   => ErrorNaming(p, "app_name")

\* The app_name is one the four handlers accept: a string that is not empty.
AppNameAccepted(args) == IsString(args.app_name) /\ args.app_name.str # <<>>

(* C3 as amended: omitting a required parameter yields an error result,     *)
(* and the error names that parameter when the parameters the handler       *)
(* checks before it are accepted: model_name is named when app_name is a    *)
(* non-empty string, fields is named when moreover model_name is a string,  *)
(* and the app scaffold always names app_name.                              *)
C3_OmittedParameterIsNamedInCheckOrder ==
    \A p \in Procs :
        Returned(p) =>
            /\ (req[p].tool \in ModelNameTools /\ Omitted(req[p].args.model_name))
                   => /\ result[p].result.isError
                      /\ (AppNameAccepted(req[p].args) => ErrorNaming(p, "model_name"))
            /\ (req[p].tool = ModelTool /\ Omitted(req[p].args.fields))
                   => /\ result[p].result.isError
                      /\ ((AppNameAccepted(req[p].args) /\ IsString(req[p].args.model_name))
                             => ErrorNaming(p, "fields"))
            /\ (req[p].tool \in AppTools /\ Omitted(req[p].args.app_name))
                   => ErrorNaming(p, "app_name")

\* The model scaffold has refused a call that has an app_name and a
\* model_name and no fields, naming fields.
C3_Witness ==
    \E p \in Procs :
        /\ Returned(p)
        /\ req[p].tool = ModelTool
        /\ AppNameAccepted(req[p].args)
        /\ IsString(req[p].args.model_name)
        /\ Omitted(req[p].args.fields)
        /\ ErrorNaming(p, "fields")

-----------------------------------------------------------------------------
(* C4: the response of fix_app holds the import-path hint exactly when       *)
(* error_message holds the substring "is not in std"; with no such          *)
(* substring (an absent or empty error_message too) there is no hint,       *)
(* whatever app_name is.                                                    *)

\* The sequence sub occurs in str: str is a prefix, then sub, then a rest.
Occurs(sub, str) ==
    \E n \in 0..Len(str) :
        /\ n + Len(sub) <= Len(str)
        /\ \A k \in 1..Len(sub) : str[n + k] = sub[k]

\* The error_message of a request, "" when there is none.
ErrorMessageOf(r) ==
    IF IsString(r.args.error_message) THEN r.args.error_message.str ELSE <<>>

C4_HintIffNotInStd ==
    \A p \in Procs :
        (Returned(p) /\ req[p].tool = "fix_app") =>
            ( (\E i \in DOMAIN TextOf(p) : TextOf(p)[i] = ImportPathHint)
              <=> Occurs(NotInStd, ErrorMessageOf(req[p])) )

\* fix_app has given the hint for an error_message that holds the substring
\* and more.
C4_Witness ==
    \E p \in Procs :
        /\ Returned(p)
        /\ req[p].tool = "fix_app"
        /\ Occurs(NotInStd, ErrorMessageOf(req[p]))
        /\ ErrorMessageOf(req[p]) # NotInStd
        /\ \E i \in DOMAIN TextOf(p) : TextOf(p)[i] = ImportPathHint


-----------------------------------------------------------------------------
(* C5: every handler is deterministic: two calls of the same tool with the  *)
(* same arguments return the same result (error flag and text), whatever    *)
(* calls came before or between them.                                       *)
C5_SameRequestSameResult ==
    \A i, j \in DOMAIN log :
        log[i].req = log[j].req => log[i].ret = log[j].ret

\* The same request has been served twice, with another call in between.
C5_Witness ==
    \E i, j, k \in DOMAIN log :
        /\ i < j /\ j < k
        /\ log[i].req = log[k].req
        /\ log[j].req # log[i].req
        /\ log[i].ret.returned /\ log[k].ret.returned

-----------------------------------------------------------------------------
(* C6: the capitalization transform is idempotent: for a non-empty name,    *)
(* applying it again to its own result, any number of times, gives the      *)
(* result of the first application.                                         *)
C6_TitleIdempotent ==
    s # <<>> => \A i \in DOMAIN caps : caps[i] = caps[1]

\* The transform has changed a name and has been applied to its result.
C6_Witness ==
    /\ s # <<>>
    /\ Len(caps) >= 2
    /\ caps[1] # s

-----------------------------------------------------------------------------
(* C7: every handler returns, for every input, a result that is not nil     *)
(* together with a nil Go error; an input error (a required parameter that  *)
(* is missing, a fields payload that cannot be decoded) is a result flagged *)
(* as an error that carries a text.                                         *)

\* The request has an input error: a parameter its tool's schema requires is
\* not a string of the request, the app_name a scaffold of a model asks for
\* is not given, or the fields payload does not decode.
InputError(r) ==
    \/ r.tool \in AppTools /\ ~ IsString(r.args.app_name)
    \/ r.tool \in ModelNameTools /\ GetString(r.args, "app_name", <<>>) = <<>>
    \/ r.tool \in ModelNameTools /\ ~ IsString(r.args.model_name)
    \/ r.tool = ModelTool /\ ~ IsString(r.args.fields)
    \/ r.tool = ModelTool /\ IsString(r.args.fields) /\ ~ DecodesToList(r.args.fields.str)

C7_ErrorsAreResults ==
    \A p \in Procs :
        pc[p] = "done" =>
            /\ result[p].returned
            /\ result[p].err = "nil"
            /\ ~ result[p].result.nil
            /\ Len(result[p].result.content) = 1
            /\ InputError(req[p]) => (result[p].result.isError /\ TextOf(p) # <<>>)

\* A call with a fields payload that is JSON and is no descriptor list has
\* been answered with an error result.
C7_Witness ==
    \E p \in Procs :
        /\ Returned(p)
        /\ req[p].tool = ModelTool
        /\ ModelChecksPass(req[p].args)
        /\ req[p].args.fields.str.syntax = "valid"
        /\ InputError(req[p])
        /\ result[p].result.isError

-----------------------------------------------------------------------------
(* C8: no state is shared between invocations: after any calls, accepted or *)
(* refused, of any tools, a call returns what the same call returns as the  *)
(* very first call of the server, and once a handler has returned none of   *)
(* its local variables is left.                                             *)
C8_NoSharedState ==
    /\ \A j \in DOMAIN log :
           log[j].req = log[1].req => log[j].ret = log[1].ret
    /\ \A p \in Procs : pc[p] \in {"idle", "done"} => frame[p] = NoFrame

\* The first request of the server has been served again after a model
\* scaffold call that went through its loop.
C8_Witness ==
    \E j, k \in DOMAIN log :
        /\ 1 < j /\ j < k
        /\ log[k].req = log[1].req
        /\ log[j].req # log[1].req
        /\ log[j].req.tool = ModelTool
        /\ ~ log[j].ret.result.isError

-----------------------------------------------------------------------------
(* C9: a field line is, in this order, the capitalized name, the type       *)
(* exactly as supplied, and a json tag that holds the name exactly as       *)
(* supplied (no change of case).                                            *)
C9_FieldLineShape ==
    \A p \in Procs :
        ModelCallDone(p) =>
            LET ds == DescriptorsOf(req[p].args.fields.str)
                lines == FieldLines(TextOf(p))
            IN  \A i \in DOMAIN lines :
                    i \in DOMAIN ds =>
                        lines[i] = <<Lit("\t"), Val(Title(Supplied(ds[i], "name"))), Lit(" "),
                                     Val(Supplied(ds[i], "type")),
                                     Lit(" 'json:\""), Val(Supplied(ds[i], "name")), Lit("\"'")>>

\* A line has been written for a name that is not all lower case and is
\* changed by neither the transform nor the tag.
C9_Witness ==
    \E p \in Procs :
        /\ ModelCallDone(p)
        /\ \E i \in DOMAIN FieldLines(TextOf(p)) :
               /\ FieldLines(TextOf(p))[i][6] = Val(<<"I", "d">>)
               /\ FieldLines(TextOf(p))[i][2] = Val(<<"I", "d">>)
               /\ FieldLines(TextOf(p))[i][4] = Val(<<"u", "i", "n", "t">>)

-----------------------------------------------------------------------------
(* C10: the model scaffold does not validate the descriptors: once the      *)
(* payload decodes to a list, the call succeeds with one field line per     *)
(* descriptor, also when a descriptor lacks its name or type, has an empty  *)
(* name or type, has one more key, or has the name of another descriptor.   *)

\* A descriptor a validation would refuse.
Unusable(elem) ==
    \/ elem.t = "null"
    \/ Supplied(elem, "name") = <<>>
    \/ Supplied(elem, "type") = <<>>
    \/ \E i \in DOMAIN elem.members : elem.members[i].key \notin {"name", "type"}
    \/ \E i, j \in DOMAIN elem.members : i # j /\ elem.members[i].key = elem.members[j].key

\* A list a validation would refuse: an unusable descriptor, or a name twice.
UnusableList(ds) ==
    \/ \E i \in DOMAIN ds : Unusable(ds[i])
    \/ \E i, j \in DOMAIN ds : i # j /\ Supplied(ds[i], "name") = Supplied(ds[j], "name")

C10_NoDescriptorValidation ==
    \A p \in Procs :
        ( /\ pc[p] = "done"
          /\ req[p].tool = ModelTool
          /\ ModelChecksPass(req[p].args)
          /\ DecodesToList(req[p].args.fields.str)
          /\ UnusableList(DescriptorsOf(req[p].args.fields.str)) )
        => /\ result[p].returned
           /\ ~ result[p].result.isError
           /\ Len(FieldLines(TextOf(p))) = Len(DescriptorsOf(req[p].args.fields.str))

\* A call has succeeded whose two descriptors have the same name, one of
\* them without a type.
C10_Witness ==
    \E p \in Procs :
        /\ ModelCallDone(p)
        /\ ~ result[p].result.isError
        /\ LET ds == DescriptorsOf(req[p].args.fields.str)
           IN  /\ Len(ds) = 2
               /\ Supplied(ds[1], "name") = Supplied(ds[2], "name")
               /\ Supplied(ds[1], "name") # <<>>
               /\ Supplied(ds[1], "type") # <<>>
               /\ Supplied(ds[2], "type") = <<>>


-----------------------------------------------------------------------------
(* C11: the server registers exactly the six tools the README lists, under *)
(* the names the README gives them, each name once and each with a handler *)
(* of its own.                                                              *)

\* The tools of the README (its Features list).
ReadmeTools ==
    {"produce_app_boilerplate", "produce_model_boilerplate", "produce_service_boilerplate",
     "produce_api_controller_boilerplate", "produce_html_controller_boilerplate", "fix_app"}

C11_ReadmeToolsRegistered ==
    /\ DOMAIN tools = ReadmeTools
    /\ Cardinality(DOMAIN tools) = Len(AddedTools(GetProduceAppBoilerplateTool))
    /\ \A m, n \in DOMAIN tools : tools[m] = tools[n] => m = n
    /\ \A p \in Procs : pc[p] # "idle" => req[p].tool \in ReadmeTools


-----------------------------------------------------------------------------
(* C12: fix_app never returns an error result: whether app_name and         *)
(* error_message are absent, empty or not empty, it returns a success       *)
(* result that holds the static checklist, item 1 to item 5.                *)

\* The literals of a text, in order: what the source writes, without the
\* values taken from the request.
Literals(text) == SelectSeq(text, LAMBDA piece : piece.lit # "")

\* a[i..] is found in b[j..], in order and possibly with pieces in between.
RECURSIVE EmbedsFrom(_, _, _, _)
EmbedsFrom(a, i, b, j) ==
    IF i > Len(a) THEN TRUE
    ELSE IF j > Len(b) THEN FALSE
    ELSE IF a[i] = b[j] THEN EmbedsFrom(a, i + 1, b, j + 1)
    ELSE EmbedsFrom(a, i, b, j + 1)

\* The static checklist: the literals fix_app writes whatever its arguments.
Checklist == Literals(FixAppResponse(<<>>, <<>>))

C12_FixAppAlwaysSucceeds ==
    \A p \in Procs :
        (pc[p] = "done" /\ req[p].tool = "fix_app") =>
            /\ result[p].returned
            /\ ~ result[p].result.nil
            /\ ~ result[p].result.isError
            /\ EmbedsFrom(Checklist, 1, Literals(TextOf(p)), 1)

\* fix_app has answered a call that gives neither argument as a string.
C12_Witness ==
    \E p \in Procs :
        /\ Returned(p)
        /\ req[p].tool = "fix_app"
        /\ ~ IsString(req[p].args.app_name)
        /\ ~ IsString(req[p].args.error_message)
        /\ ~ result[p].result.isError
        /\ Len(Checklist) > 5


-----------------------------------------------------------------------------
(* C13: every invocation of every tool produces exactly one response, and  *)
(* the response is a single text: a result, success or error, holds        *)
(* exactly one content item, of type text and not empty; a handler that is *)
(* still running has produced no response, and a response, once produced,  *)
(* is not followed by another one for the same invocation.                 *)

\* The result of invocation p is one text.
OneText(p) ==
    /\ result[p].returned
    /\ ~ result[p].result.nil
    /\ Len(result[p].result.content) = 1
    /\ result[p].result.content[1].type = "text"
    /\ result[p].result.content[1].text # <<>>

C13_OneTextResponse ==
    /\ [](\A p \in Procs : pc[p] = "done" => OneText(p))
    /\ [](\A p \in Procs : pc[p] \in {"idle", "loop"} => ~ result[p].returned)
    /\ [][\A p \in Procs :
             result[p].returned => (result'[p] = result[p] \/ pc'[p] = "idle")]_vars

\* The HTML controller scaffold has answered one call with an error text.
C13_Witness ==
    \E p \in Procs :
        /\ pc[p] = "done"
        /\ req[p].tool = "produce_html_controller_boilerplate"
        /\ OneText(p)
        /\ result[p].result.isError


-----------------------------------------------------------------------------
(* C14: the model, service, API controller and HTML controller scaffolds    *)
(* require app_name although their schemas do not: when app_name is absent *)
(* or is the empty string the result is the error "App name is required",  *)
(* and nothing else, whatever the other parameters are.                     *)

\* The argument is not given, or is the empty string.
AbsentOrEmpty(arg) == arg = ArgAbsent \/ arg = ArgString(<<>>)

C14_AppNameRequiredFirst ==
    /\ \A name \in ModelNameTools : "app_name" \notin Required(name)
    /\ \A p \in Procs :
           ( /\ pc[p] = "done"
             /\ req[p].tool \in ModelNameTools
             /\ AbsentOrEmpty(req[p].args.app_name) )
           => /\ result[p].returned
              /\ ~ result[p].result.nil
              /\ result[p].result.isError
              /\ TextOf(p) = AppNameRequired

\* The service scaffold has asked for the app name of a call that gives an
\* empty app_name and no model_name.
C14_Witness ==
    \E p \in Procs :
        /\ Returned(p)
        /\ req[p].tool = "produce_service_boilerplate"
        /\ req[p].args.app_name = ArgString(<<>>)
        /\ Omitted(req[p].args.model_name)
        /\ TextOf(p) = AppNameRequired


-----------------------------------------------------------------------------
(* C15: the invocation the app scaffold tells the caller to run next,      *)
(* produce_model_boilerplate app_name=<app> model_name="User"               *)
(* fields="ID:uint,Name:string,Email:string,CreatedAt:time.Time,            *)
(* UpdatedAt:time.Time", is accepted by the model scaffold: the result is a *)
(* success with the struct of the model, not an error result.               *)
C15_ExampleInvocationAccepted ==
    \A p \in Procs :
        (pc[p] = "done" /\ req[p] = ExampleRequest(shop)) =>
            /\ result[p].returned
            /\ ~ result[p].result.isError
            /\ HasStruct(TextOf(p))


-----------------------------------------------------------------------------
(* C16: the model scaffold checks its inputs in a fixed order, app_name    *)
(* not empty, then model_name present, then fields present, then fields    *)
(* decodable, and returns at the first check that fails: the error reports *)
(* that problem only, and names no parameter of a later check.             *)

\* The first pieces of text are the pieces of start.
StartsWith(text, start) ==
    /\ Len(text) >= Len(start)
    /\ \A i \in DOMAIN start : text[i] = start[i]

\* The check the request fails first, 0 when it passes all four.
FirstFailedCheck(args) ==
    IF ~ AppNameAccepted(args) THEN 1
    ELSE IF ~ IsString(args.model_name) THEN 2
    ELSE IF ~ IsString(args.fields) THEN 3
    ELSE IF ~ DecodesToList(args.fields.str) THEN 4
    ELSE 0

C16_ChecksInFixedOrder ==
    \A p \in Procs :
        (pc[p] = "done" /\ req[p].tool = ModelTool) =>
            LET failed == FirstFailedCheck(req[p].args)
                text == TextOf(p)
            IN  /\ result[p].returned
                /\ result[p].result.isError <=> failed # 0
                /\ failed = 1 => /\ text = AppNameRequired
                /\ failed = 2 => /\ StartsWith(text, <<Lit("Error getting '"), Lit("model_name")>>)
                                 /\ ~ NamesParameter(text, "fields")
                /\ failed = 3 => /\ StartsWith(text, <<Lit("Error getting '"), Lit("fields")>>)
                                 /\ ~ NamesParameter(text, "model_name")
                /\ failed = 4 => /\ StartsWith(text, <<Lit("Invalid 'fields' JSON format: ")>>)
                                 /\ Len(text) = 2
                                 /\ ~ NamesParameter(text, "model_name")

\* The model scaffold has answered "App name is required" to a call that
\* fails every check.
C16_Witness ==
    \E p \in Procs :
        /\ Returned(p)
        /\ req[p].tool = ModelTool
        /\ ~ AppNameAccepted(req[p].args)
        /\ Omitted(req[p].args.model_name)
        /\ Omitted(req[p].args.fields)
        /\ TextOf(p) = AppNameRequired


-----------------------------------------------------------------------------
(* C17: a fields payload that is valid JSON and is no list of objects with *)
(* string values (an object or a scalar instead of an array, an element    *)
(* that is no object, a name or type that is no string) is refused as a    *)
(* whole with the "Invalid 'fields' JSON format" error: no field line is   *)
(* written for the well-formed descriptors of the same list.               *)
C17_WrongShapeIsRefused ==
    \A p \in Procs :
        ( /\ pc[p] = "done"
          /\ req[p].tool = ModelTool
          /\ ModelChecksPass(req[p].args)
          /\ req[p].args.fields.str.syntax = "valid"
          /\ ~ DecodesToList(req[p].args.fields.str) )
        => /\ result[p].returned
           /\ result[p].result.isError
           /\ StartsWith(TextOf(p), <<Lit("Invalid 'fields' JSON format: ")>>)
           /\ ~ HasStruct(TextOf(p))
           /\ \A i \in DOMAIN TextOf(p) : TextOf(p)[i].val = <<>>

\* A list of a well-formed descriptor and a descriptor whose type is a
\* number has been refused.
C17_Witness ==
    \E p \in Procs :
        /\ Returned(p)
        /\ req[p].tool = ModelTool
        /\ ModelChecksPass(req[p].args)
        /\ req[p].args.fields.str.syntax = "valid"
        /\ req[p].args.fields.str.value.t = "array"
        /\ Len(req[p].args.fields.str.value.elems) = 2
        /\ req[p].args.fields.str.value.elems[1] = idUint
        /\ req[p].args.fields.str.value.elems[2].t = "object"
        /\ result[p].result.isError


-----------------------------------------------------------------------------
(* C18: a fields payload that decodes to the empty list, the JSON text []  *)
(* or the JSON text null, is accepted: the result is a success whose       *)
(* struct holds the embedded gorm.Model and no field line.                 *)
C18_EmptyListIsAccepted ==
    \A p \in Procs :
        ( /\ pc[p] = "done"
          /\ req[p].tool = ModelTool
          /\ ModelChecksPass(req[p].args)
          /\ req[p].args.fields.str \in {JSONText(JArray(<<>>)), JSONText(JNull)} )
        => /\ result[p].returned
           /\ ~ result[p].result.isError
           /\ HasStruct(TextOf(p))
           /\ FieldLines(TextOf(p)) = <<>>

\* The model scaffold has answered a call whose fields is the text null.
C18_Witness ==
    \E p \in Procs :
        /\ Returned(p)
        /\ req[p].tool = ModelTool
        /\ ModelChecksPass(req[p].args)
        /\ req[p].args.fields.str = JSONText(JNull)
        /\ ~ result[p].result.isError
        /\ FieldLines(TextOf(p)) = <<>>


-----------------------------------------------------------------------------
(* C19: the scaffolds keyed by a model name use two forms of it.           *)

NameKeyedTools ==
    {"produce_service_boilerplate", "produce_api_controller_boilerplate",
     "produce_html_controller_boilerplate"}

\* What the handler registered for the tool returns for the arguments.
NameKeyedReturn(tool, args) ==
    IF tool = "produce_service_boilerplate" THEN ProduceServiceBoilerplateReturn(args)
    ELSE IF tool = "produce_api_controller_boilerplate"
    THEN ProduceApiControllerBoilerplateReturn(args)
    ELSE ProduceHtmlControllerBoilerplateReturn(args)

\* Two model names with the same capitalized and the same lowercased form.
SameForms(m1, m2) == Title(m1) = Title(m2) /\ ToLower(m1) = ToLower(m2)

\* C19: when the service, api-controller or html-controller handler has
\* returned a scaffold for a model name, the handler returns the very same
\* result for the same app_name and any other model name with the same
\* capitalized and the same lowercased form, and every value the text holds
\* that is not written in the template is the capitalized form, the lowercased
\* form or the application name.
C19_OutputKeyedByTwoForms ==
    \A p \in Procs :
        ( /\ Returned(p)
          /\ req[p].tool \in NameKeyedTools
          /\ ~ result[p].result.isError )
        => LET m1 == req[p].args.model_name.str
               text == TextOf(p)
           IN  /\ \A m2 \in ModelNames :
                      SameForms(m1, m2)
                      => NameKeyedReturn(req[p].tool,
                             [req[p].args EXCEPT !.model_name = ArgString(m2)])
                         = result[p]
               /\ \A i \in 1..Len(text) :
                      \/ text[i].lit # ""
                      \/ text[i].val \in {Title(m1), ToLower(m1), req[p].args.app_name.str}

\* Reached: a scaffold returned for "user", which shares both forms with
\* "User" and is neither of its own forms' only spelling.
C19_Witness ==
    \E p \in Procs :
        /\ Returned(p)
        /\ req[p].tool \in NameKeyedTools
        /\ ~ result[p].result.isError
        /\ req[p].args.model_name.str = user
        /\ \E m2 \in ModelNames : m2 # user /\ SameForms(user, m2)
        /\ \E i \in 1..Len(TextOf(p)) : TextOf(p)[i] = Val(Title(user))


-----------------------------------------------------------------------------
(* C20: the order of the fix_app text and its two optional parts.          *)

\* The argument is a string that is not empty.
NonEmpty(arg) == arg.k = "string" /\ arg.str # <<>>

\* The places of a piece in a text.
Places(text, piece) == {i \in 1..Len(text) : text[i] = piece}

FixHeading ==
    Lit("Here are some pointers to address common issues in your Echo web application:\n\n")

ForApplication == Lit("For application '")

FixItem1 ==
    Lit("1.  **Go Module Paths**: Ensure your Go module is correctly initialized and that internal imports use the module name.\n")

FixItem5 ==
    Lit("5.  **Route Registration**: Ensure all your controller methods have corresponding routes registered in your 'main.go' (in 'cmd/web/'). For example:\n")

Regarding == Lit("\n\nRegarding your specific error: \"")

\* C20: in every text fix_app returned, the heading comes first; the line
\* "For application '<app_name>':" stands between the heading and item 1 when
\* app_name is a non-empty string and nowhere otherwise; the echo of
\* error_message stands after item 5, at the end of the checklist, when
\* error_message is a non-empty string and nowhere otherwise; and the
\* import-path hint, where it stands, is the last piece and follows the echo.
C20_FixAppOrderAndOptionalParts ==
    \A p \in Procs :
        (Returned(p) /\ req[p].tool = "fix_app")
        => LET text == TextOf(p)
               app == req[p].args.app_name
               msg == req[p].args.error_message
               first == IF NonEmpty(app) THEN 5 ELSE 2
               echo == Places(text, Regarding)
               hint == Places(text, ImportPathHint)
               last == Len(FixAppResponse(<<>>, <<>>)) + (IF NonEmpty(app) THEN 3 ELSE 0)
           IN  /\ text[1] = FixHeading
               /\ text[first] = FixItem1
               /\ IF NonEmpty(app)
                  THEN /\ Places(text, ForApplication) = {2}
                       /\ text[3] = Val(app.str)
                       /\ text[4] = Lit("':\n")
                  ELSE Places(text, ForApplication) = {}
               /\ \A i \in Places(text, FixItem5) : i > first /\ i < last
               /\ Places(text, FixItem5) # {}
               /\ IF NonEmpty(msg)
                  THEN /\ echo = {last + 1}
                       /\ text[last + 2] = Val(msg.str)
                       /\ text[last + 3] = Lit("\"\n")
                       /\ Len(text) >= last + 3
                  ELSE echo = {} /\ Len(text) = last
               /\ hint # {} => /\ echo # {}
                               /\ hint = {last + 4}
                               /\ Len(text) = last + 4

\* Reached: a text with the echo and the hint and without the application
\* line.
C20_Witness ==
    \E p \in Procs :
        /\ Returned(p)
        /\ req[p].tool = "fix_app"
        /\ ~ NonEmpty(req[p].args.app_name)
        /\ NonEmpty(req[p].args.error_message)
        /\ Places(TextOf(p), ImportPathHint) # {}
        /\ Places(TextOf(p), ForApplication) = {}


-----------------------------------------------------------------------------
(* C21: a result is a whole template or an error message, never a part of  *)
(* a template.                                                             *)

\* The literal stretches of a format, as the pieces Sprintf writes for them.
FormatLiterals(format) ==
    LET lits == SelectSeq(format, LAMBDA it : it.verb \in {"", "%"})
    IN  [i \in DOMAIN lits |-> Lit(lits[i].lit)]

\* The literals of the template a handler writes for every accepted request.
TemplateLiterals(handler) ==
    IF handler = "ProduceAppBoilerplateHandler"
    THEN FormatLiterals(ProduceAppBoilerplateFormat)
    ELSE IF handler = "StartHereProduceAppBoilerplateHandler"
    THEN FormatLiterals(StartHereProduceAppBoilerplateFormat)
    ELSE IF handler = "ProduceModelBoilerplateHandler"
    THEN FormatLiterals(ProduceModelBoilerplateFormat)
    ELSE IF handler = "ProduceServiceBoilerplateHandler"
    THEN FormatLiterals(ProduceServiceBoilerplateFormat)
    ELSE IF handler = "ProduceApiControllerBoilerplateHandler"
    THEN FormatLiterals(ProduceApiControllerBoilerplateFormat)
    ELSE IF handler = "ProduceHtmlControllerBoilerplateHandler"
    THEN FormatLiterals(ProduceHtmlControllerBoilerplateFormat)
    ELSE Checklist

Handlers == {tools[name] : name \in DOMAIN tools}

\* Every literal some handler writes into a scaffold or into the checklist.
AllTemplateLiterals ==
    UNION {Range(TemplateLiterals(handler)) : handler \in Handlers}
    \cup Range(FormatLiterals(ModelContentFormat))
    \cup Range(FormatLiterals(StructFieldFormat))

\* How the error messages of the handlers begin.
ErrorStarts ==
    {AppNameRequired, <<Lit("Error getting '")>>, <<Lit("Invalid 'fields' JSON format: ")>>}

\* C21: a handler that is in its loop has returned nothing.  A result flagged
\* as an error starts as an error message, holds no literal of a template, no
\* struct declaration and no formatted value.  A result not flagged as an
\* error holds every literal of its handler's template, in the order of the
\* template, and for the model scaffold a struct declaration with one field
\* line for every descriptor of the request.
C21_NoPartialFailure ==
    \A p \in Procs :
        /\ pc[p] = "loop" => ~ result[p].returned
        /\ Returned(p) =>
               LET text == TextOf(p)
               IN  IF result[p].result.isError
                   THEN /\ \E start \in ErrorStarts : StartsWith(text, start)
                        /\ Range(text) \cap AllTemplateLiterals = {}
                        /\ ~ HasStruct(text)
                        /\ \A i \in DOMAIN text : text[i].lit # ""
                   ELSE /\ LET whole == TemplateLiterals(tools[req[p].tool])
                            IN  SelectSeq(text, LAMBDA piece : piece \in Range(whole))
                                = whole
                        /\ req[p].tool = ModelTool =>
                               /\ HasStruct(text)
                               /\ Len(FieldLines(text))
                                  = Len(DescriptorsOf(req[p].args.fields.str))

\* Reached: an error result for a payload whose first element is a
\* descriptor and whose second is not.
C21_Witness ==
    \E p \in Procs :
        /\ Returned(p)
        /\ req[p].tool = ModelTool
        /\ ModelChecksPass(req[p].args)
        /\ result[p].result.isError
        /\ LET payload == req[p].args.fields.str
           IN  /\ payload.syntax = "valid"
               /\ payload.value.t = "array"
               /\ Len(payload.value.elems) >= 2
               /\ IsDescriptor(payload.value.elems[1])
               /\ payload.value.elems[1].t = "object"
               /\ ~ IsDescriptor(payload.value.elems[2])


-----------------------------------------------------------------------------
(* C22: the app scaffold takes an empty app_name, the other scaffolds do   *)
(* not.                                                                    *)

\* C22: a returned app scaffold call is an error result exactly when its
\* app_name is not a string of the request; when it is a string, the empty
\* one included, every formatted value of the text is that string.  A
\* returned call of one of the other four scaffolds with the empty string as
\* app_name is the error result "App name is required".
C22_AppScaffoldTakesEmptyName ==
    \A p \in Procs :
        Returned(p) =>
            /\ req[p].tool \in AppTools =>
                   /\ result[p].result.isError <=> ~ IsString(req[p].args.app_name)
                   /\ IsString(req[p].args.app_name) =>
                          /\ \E i \in DOMAIN TextOf(p) :
                                 TextOf(p)[i] = Val(req[p].args.app_name.str)
                          /\ \A i \in DOMAIN TextOf(p) :
                                 \/ TextOf(p)[i].lit # ""
                                 \/ TextOf(p)[i] = Val(req[p].args.app_name.str)
            /\ (req[p].tool \in ModelNameTools /\ req[p].args.app_name = ArgString(<<>>)) =>
                   /\ result[p].result.isError
                   /\ TextOf(p) = AppNameRequired

\* Reached: an app scaffold returned for the empty app_name.
C22_Witness ==
    \E p \in Procs :
        /\ Returned(p)
        /\ req[p].tool \in AppTools
        /\ req[p].args.app_name = ArgString(<<>>)
        /\ ~ result[p].result.isError
        /\ \E i \in DOMAIN TextOf(p) : TextOf(p)[i] = Val(<<>>)


-----------------------------------------------------------------------------
(* C23: every invocation runs to completion.                               *)

\* The handler of invocation p is in its loop and can take its next step
\* whatever the other invocations do.
LoopAdvances(p) ==
    /\ frame[p].live
    /\ frame[p].i \in 1..(Len(frame[p].fields) + 1)
    /\ Len(frame[p].structFields) = frame[p].i - 1
    /\ ENABLED (ModelLoop(p) \/ ModelReturn(p, FALSE))

\* C23: a request handed to a handler is answered in the same step or puts
\* the model handler in its loop; in the loop the handler can always take a
\* step, each turn moves to the next descriptor and adds one line, so that
\* the loop has run once per descriptor when the handler returns; and a
\* handler in its loop returns in the end.
C23_RunsToCompletion ==
    /\ [](\A p \in Procs : /\ pc[p] \in {"idle", "loop", "done"}
                           /\ pc[p] = "done" => result[p].returned
                           /\ pc[p] = "loop" => LoopAdvances(p))
    /\ [][\A p \in Procs :
             /\ (pc[p] = "idle" /\ pc'[p] # "idle") =>
                    \/ pc'[p] = "done"
                    \/ pc'[p] = "loop" /\ frame'[p].i = 1 /\ req'[p].tool = ModelTool
             /\ (pc[p] = "loop" /\ frame'[p] # frame[p]) =>
                    \/ /\ pc'[p] = "loop"
                       /\ frame'[p].i = frame[p].i + 1
                       /\ frame'[p].fields = frame[p].fields
                    \/ /\ pc'[p] = "done"
                       /\ frame[p].i = Len(frame[p].fields) + 1
                       /\ Len(FieldLines(result'[p].result.content[1].text))
                          = Len(frame[p].fields)]_vars
    /\ \A p \in Procs : (pc[p] = "loop") ~> (pc[p] = "done")

\* Reached: one invocation has returned a struct of two field lines while
\* the other is still in its loop.
C23_Witness ==
    \E p, q \in Procs :
        /\ p # q
        /\ Returned(p)
        /\ req[p].tool = ModelTool
        /\ ~ result[p].result.isError
        /\ Len(FieldLines(TextOf(p))) = 2
        /\ pc[q] = "loop"


-----------------------------------------------------------------------------
(* C24: invocations that run at once do not interfere.                     *)

\* The loop of the model handler run from a frame to its end with no other
\* invocation taking a step.
RECURSIVE LoopAlone(_)
LoopAlone(f) ==
    IF f.i > Len(f.fields) THEN f
    ELSE LoopAlone([f EXCEPT !.structFields = AppendField(@, StructField(f.fields[f.i])),
                             !.i = @ + 1])

\* What the handler registered for the request's tool returns when it runs
\* alone.
RunAlone(r) ==
    LET handler == tools[r.tool]
    IN  IF handler = "ProduceAppBoilerplateHandler" THEN ProduceAppBoilerplateReturn(r.args)
        ELSE IF handler = "StartHereProduceAppBoilerplateHandler"
        THEN StartHereProduceAppBoilerplateReturn(r.args)
        ELSE IF handler = "ProduceServiceBoilerplateHandler"
        THEN ProduceServiceBoilerplateReturn(r.args)
        ELSE IF handler = "ProduceApiControllerBoilerplateHandler"
        THEN ProduceApiControllerBoilerplateReturn(r.args)
        ELSE IF handler = "ProduceHtmlControllerBoilerplateHandler"
        THEN ProduceHtmlControllerBoilerplateReturn(r.args)
        ELSE IF handler = "FixAppHandler" THEN FixAppReturn(r.args)
        ELSE LET entry == ProduceModelBoilerplateEntry(r.args)
                 f == LoopAlone(entry.frame)
             IN  IF entry.ret.returned THEN entry.ret
                 ELSE Return(NewToolResultText(
                          ProduceModelBoilerplateResponse(f.appName, f.modelName,
                                                          f.structFields)))

\* What an invocation holds: its position, request, locals and result.
Own(p) == <<pc[p], req[p], frame[p], result[p]>>

\* C24: with two handlers running at once and their steps interleaved in
\* every order, an invocation that has returned holds the result its handler
\* returns for its request when it runs alone, and a step changes what one
\* invocation holds and nothing of the other.
C24_NoInterference ==
    /\ [](\A p \in Procs : Returned(p) => result[p] = RunAlone(req[p]))
    /\ [][\A p, q \in Procs : (p # q /\ Own(p)' # Own(p)) => Own(q)' = Own(q)]_vars

\* Reached: an invocation has returned a struct of two field lines from its
\* loop while the other invocation is in the middle of its own loop.
C24_Witness ==
    \E p, q \in Procs :
        /\ p # q
        /\ Returned(p)
        /\ req[p].tool = ModelTool
        /\ ~ result[p].result.isError
        /\ Len(FieldLines(TextOf(p))) = 2
        /\ result[p] = RunAlone(req[p])
        /\ pc[q] = "loop"
        /\ frame[q].i = 2
        /\ Len(frame[q].structFields) = 1


-----------------------------------------------------------------------------
(* C25: the capitalization changes the first letter of a word and nothing  *)
(* else.                                                                   *)

\* A character of a word: a letter, a digit or an underscore.
WordChar(c) ==
    c \in Range(LowerLetters) \cup Range(UpperLetters) \cup Digits \cup {"_"} \cup DigraphLetters

\* Position i of the name is where a word starts.
WordStart(name, i) == WordChar(name[i]) /\ (i = 1 \/ ~ WordChar(name[i - 1]))

\* The capital of a letter that is not one.
CapitalOf(c) ==
    IF c \in Range(LowerLetters) THEN UpperLetters[IndexOf(c, LowerLetters)] ELSE "U+01C5"

\* The character is a letter in a case other than the one a word starts with.
NotCapital(c) == c \in Range(LowerLetters) \cup {"U+01C4", "U+01C6"}

userName == <<"u", "s", "e", "r", "N", "a", "m", "e">>

firstName == <<"f", "i", "r", "s", "t", " ", "n", "a", "m", "e">>

\* C25: the capitalized form of a name has the length of the name; it
\* differs from the name only where a word starts with a letter that is not a
\* capital, and there it has the capital of that letter; so a name whose
\* words all start with a capital, a digit or an underscore is left as it
\* is.  "userName" becomes "UserName", "User" stays "User" and "first name"
\* becomes "First Name".
C25_OnlyFirstLetters ==
    /\ caps # <<>> =>
           LET cap == caps[1]
           IN  /\ Len(cap) = Len(s)
               /\ \A i \in DOMAIN s :
                      IF WordStart(s, i) /\ NotCapital(s[i])
                      THEN cap[i] = CapitalOf(s[i])
                      ELSE cap[i] = s[i]
               /\ (\A i \in DOMAIN s : WordStart(s, i) => ~ NotCapital(s[i])) => cap = s
    /\ Title(userName) = <<"U", "s", "e", "r", "N", "a", "m", "e">>
    /\ Title(Title(user)) = Title(user)
    /\ Title(user) = <<"U", "s", "e", "r">>
    /\ Title(firstName) = <<"F", "i", "r", "s", "t", " ", "N", "a", "m", "e">>

\* Reached: a name whose first letter was changed and whose later small
\* letter, inside the same word, was not.
C25_Witness ==
    /\ caps # <<>>
    /\ Len(s) >= 2
    /\ s[1] = "a"
    /\ caps[1][1] = "A"
    /\ \E i \in 2..Len(s) : s[i] = "a" /\ ~ WordStart(s, i) /\ caps[1][i] = "a"


-----------------------------------------------------------------------------
(* C26: the hints main appends to the descriptions lead forward.           *)

\* The place of a tool in the order of main's AddTool calls.
StepOf(name) ==
    CHOOSE n \in 1..6 :
        \E appTool \in {GetProduceAppBoilerplateTool, GetStartHereProduceAppBoilerplateTool} :
            AddedTools(appTool)[n].name = name

\* The tool names the hint of a registered tool quotes.
HintOf(name) == NextRecommendedStep(tools[name])

\* C26: every tool name a hint quotes is registered with the server and was
\* added after the tool that carries the hint; fix_app carries no hint and
\* every other tool carries one; the app scaffold's hint names the model
\* scaffold, the model scaffold's the service scaffold, the service
\* scaffold's the two controller scaffolds, and fix_app is named by the hint
\* of the html controller scaffold, which the api controller's hint names.
C26_HintsLeadForward ==
    /\ \A name \in DOMAIN tools :
           /\ \A next \in HintOf(name) : next \in DOMAIN tools /\ StepOf(next) > StepOf(name)
           /\ HintOf(name) = {} <=> name = "fix_app"
    /\ \A name \in AppTools \cap DOMAIN tools : HintOf(name) = {ModelTool}
    /\ HintOf(ModelTool) = {"produce_service_boilerplate"}
    /\ HintOf("produce_service_boilerplate")
       = {"produce_api_controller_boilerplate", "produce_html_controller_boilerplate"}
    /\ "fix_app" \in HintOf("produce_html_controller_boilerplate")
    /\ "produce_html_controller_boilerplate" \in HintOf("produce_api_controller_boilerplate")

\* Reached: the server that registers the app scaffold as
\* start_here_produce_app_boilerplate has answered a call of it.
C26_Witness ==
    /\ "start_here_produce_app_boilerplate" \in DOMAIN tools
    /\ HintOf("start_here_produce_app_boilerplate") = {ModelTool}
    /\ \E p \in Procs : Returned(p) /\ req[p].tool = "start_here_produce_app_boilerplate"


-----------------------------------------------------------------------------
(* C27: the model handler of package tools and createModelHandler of       *)
(* main.go decide alike.                                                   *)

\* The struct declaration of a text: the name of the struct, the opening of
\* its body and its field lines.
StructDeclaration(text) == Between(text, Lit(ModelContentFormat[1].lit), StructClose)

\* The values formatted into a text.
ValuesOf(text) == {text[i] : i \in {j \in DOMAIN text : text[j].lit = ""}}

\* C27: for every request the model handler of package tools has answered,
\* createModelHandler returns a result that is an error exactly when the
\* answer is one; for an error the two texts are equal; otherwise the two
\* texts hold the same struct declaration, with the same field lines in the
\* same order, and the same formatted values.
C27_HandlersDecideAlike ==
    \A p \in Procs :
        (Returned(p) /\ req[p].tool = ModelTool)
        => LET packaged == result[p].result
               monolith == createModelHandler(req[p].args).result
               text == TextOf(p)
               old == monolith.content[1].text
           IN  /\ monolith.isError = packaged.isError
               /\ Len(monolith.content) = Len(packaged.content)
               /\ IF packaged.isError
                  THEN old = text
                  ELSE /\ HasStruct(text) /\ HasStruct(old)
                       /\ StructDeclaration(old) = StructDeclaration(text)
                       /\ FieldLines(old) = FieldLines(text)
                       /\ ValuesOf(old) = ValuesOf(text)

\* Reached: the packaged handler has returned a struct of two field lines
\* whose texts differ from that of createModelHandler in the template only.
C27_Witness ==
    \E p \in Procs :
        /\ Returned(p)
        /\ req[p].tool = ModelTool
        /\ ~ result[p].result.isError
        /\ Len(FieldLines(TextOf(p))) = 2
        /\ createModelHandler(req[p].args).result.content[1].text # TextOf(p)
        /\ StructDeclaration(createModelHandler(req[p].args).result.content[1].text)
           = StructDeclaration(TextOf(p))


-----------------------------------------------------------------------------
(* C28: app_name is written as it was given.                               *)

\* The values a handler formats from the parameters of a request other than
\* app_name: the two forms of model_name, the capitalized name, the name and
\* the type of every descriptor, and error_message.
OtherValues(r) ==
    LET m == GetString(r.args, "model_name", <<>>)
        ds == IF /\ r.tool = ModelTool
                 /\ IsString(r.args.fields)
                 /\ DecodesToList(r.args.fields.str)
              THEN DescriptorsOf(r.args.fields.str) ELSE <<>>
    IN  {Val(Title(m)), Val(ToLower(m)), Val(GetString(r.args, "error_message", <<>>))}
        \cup UNION {{Val(Title(Supplied(ds[i], "name"))), Val(Supplied(ds[i], "name")),
                     Val(Supplied(ds[i], "type"))} : i \in DOMAIN ds}

\* C28: a text returned for a request with an app_name holds the app_name as
\* it was given, and every other value formatted into the text comes from
\* model_name, the descriptors or error_message: no value is a capitalized or
\* lowercased form of app_name.  The app scaffold and fix_app without
\* error_message format no value but app_name.
C28_AppNameAsSupplied ==
    \A p \in Procs :
        ( /\ Returned(p)
          /\ ~ result[p].result.isError
          /\ IsString(req[p].args.app_name) )
        => LET given == Val(req[p].args.app_name.str)
               values == ValuesOf(TextOf(p))
           IN  /\ given \in values
               /\ values \subseteq {given} \cup OtherValues(req[p])
               /\ req[p].tool \in AppTools => values = {given}
               /\ ( /\ req[p].tool = "fix_app"
                    /\ GetString(req[p].args, "error_message", <<>>) = <<>> )
                  => values = {given}

\* Reached: a scaffold for an app_name with a capital letter inside, which
\* differs from its capitalized and from its lowercased form.
C28_Witness ==
    \E p \in Procs :
        /\ Returned(p)
        /\ ~ result[p].result.isError
        /\ req[p].tool \in AppTools
        /\ req[p].args.app_name = ArgString(myShop)
        /\ Title(myShop) # myShop
        /\ ToLower(myShop) # myShop
        /\ Val(myShop) \in ValuesOf(TextOf(p))

====
